---- MODULE Spec2Model ----
(***************************************************************************)
(* Cache layer of ashumeet/tradingBot.                                     *)
(*                                                                         *)
(*  - SpecRetry models markettrader.utils.redis_client.RedisClient:        *)
(*    _get_client and _execute_with_retry, one caller issuing a sequence   *)
(*    of independent invocations against a store whose replies are chosen  *)
(*    nondeterministically.                                                *)
(*  - SpecCache models trader_app.services.base_caching_service            *)
(*    (get_from_cache, set_cache, cache_first) on top of                   *)
(*    trader_app.utils.redis_schema (get_key, get_ttl_for_key,             *)
(*    serialize_model, deserialize_model) and a key-value store.           *)
(*  - SpecTtl runs the same cache_first calls while the store's clock      *)
(*    advances and the store drops the entries whose TTL has passed.       *)
(*  - SpecKey calls get_key and get_ttl_for_key, SpecCodec calls           *)
(*    serialize_model and deserialize_model, on arguments drawn from       *)
(*    bounded sets.                                                        *)
(*  - SpecList models RedisClient.add_to_list_limited on one Redis list.   *)
(*  - SpecPipe runs add_to_list_limited from two callers next to a reader, *)
(*    the store running the commands it was sent in steps of its own.      *)
(*  - SpecClear models RedisClient.clear_cache on a small key space.       *)
(*  - SpecShared runs _get_client and _execute_with_retry in two threads   *)
(*    that share self._client, one read or write of the field per step.    *)
(*  - SpecCtor models RedisClient.__new__, __init__ and                    *)
(*    _create_connection_pool over repeated constructions.                 *)
(*  - SpecPrefix calls get_key(category, key_type, identifier) in the      *)
(*    redis_schema module of each package, SpecPair calls get_key on       *)
(*    pairs of argument lists.                                             *)
(*  - SpecService models MarketDataService.get_bars_for_symbol and         *)
(*    OrderService.get_order_by_id, called one after another on one store. *)
(*  - SpecRace runs cache_first for one key in three concurrent callers,   *)
(*    one store command or fetch per step.                                 *)
(***************************************************************************)
EXTENDS Integers, Sequences, FiniteSets, TLC

(* ---------------------------------------------------------------------- *)
(* Bounds                                                                  *)
(* ---------------------------------------------------------------------- *)
\* max_retries is drawn from 0..MaxRetriesBound when the client is built
MaxRetriesBound == 2
\* number of _execute_with_retry invocations one behaviour may start
MaxCalls == 2
\* items of a params dict handed to get_key
MaxParams == 2
\* records in a list handed to serialize_model
MaxBatch == 2
\* max_items of add_to_list_limited is drawn from 0..MaxItemsArg
MaxItemsArg == 3
\* add_to_list_limited is called while the list is shorter than this
MaxListed == 4
\* the clock runs for this many minutes
MaxMinutes == 5

(* ---------------------------------------------------------------------- *)
(* State of RedisClient / _execute_with_retry                              *)
(* ---------------------------------------------------------------------- *)
VARIABLES
    max_retries,    \* self.max_retries
    client,         \* self._client: NoClient or the id of a handle
    handles,        \* number of redis.Redis handles created so far
    pc,             \* position of the caller inside _execute_with_retry
    retry_count,    \* local retry_count
    last_error,     \* local last_error
    attempts,       \* loop iterations entered by the current invocation
    sleeps,         \* time.sleep calls made by the current invocation
    plan,           \* plan[i]: what the store does to the i-th attempt of
                    \* the current invocation ("ok" or the error it raises)
    used,           \* handle each attempt ran on (NoClient: none obtained)
    outcome,        \* how the current invocation ended
    calls,          \* invocations started so far
    wait_time,      \* local wait_time, in milliseconds (NoWait: none computed)
    ping_out        \* how ping() ends when the invocation is the one it makes

retryVars == <<max_retries, client, handles, pc, retry_count, last_error,
               attempts, sleeps, plan, used, outcome, calls, wait_time,
               ping_out>>

(* ---------------------------------------------------------------------- *)
(* State of BaseCachingService.cache_first and of the store                *)
(* ---------------------------------------------------------------------- *)
VARIABLES
    store,          \* the key-value store: a set of entries, one per key
    store_before,   \* the store as it would be had the current cache_first
                    \* call not been made (expiry and foreign writes included)
    cf_pc,          \* position of the caller inside cache_first
    cf_req,         \* arguments key_type, params, model of the current call
    fetch_plan,     \* what fetch_source does when the current call invokes it
    looked,         \* the entry the store held under the key at the lookup
    get_reply,      \* the store's reply to the GET ("none": not issued)
    set_reply,      \* the store's reply to the SETEX ("none": not issued)
    cached,         \* local `cached` of cache_first
    data,           \* local `data` of cache_first
    fetch_calls,    \* invocations of fetch_source by the current call
    setex_log,      \* SETEX commands issued by the current call
    cf_out          \* how the current cache_first call ended

cacheVars == <<store, store_before, cf_pc, cf_req, fetch_plan, looked,
               get_reply, set_reply, cached, data, fetch_calls, setex_log,
               cf_out>>

(* ---------------------------------------------------------------------- *)
(* The clock of the store, for the expiry of the entries                   *)
(* ---------------------------------------------------------------------- *)
VARIABLES
    now,            \* seconds elapsed on the store's clock
    written,        \* written[k]: when cache_first last wrote the entry under
                    \* key k (-1: never, or the entry was replaced or dropped
                    \* by something else than the passing of time)
    looked_at       \* the clock at the lookup of the current call (at its
                    \* start, until the lookup is made)

clockVars == <<now, written, looked_at>>

(* ---------------------------------------------------------------------- *)
(* Calls of the schema functions, of the codec and of the list utility     *)
(* ---------------------------------------------------------------------- *)
VARIABLES
    k_type,         \* get_key, get_ttl_for_key: argument key_type
    k_params,       \* get_key: argument params, items in insertion order
    k_perm,         \* the same mapping with its items inserted in another order
    k_pc,           \* "args": nothing called yet; "called": the results are in
    k_key,          \* result of get_key(k_type, k_params)
    k_key_perm,     \* result of get_key(k_type, k_perm)
    k_ttl           \* result of get_ttl_for_key(k_type)

keyVars == <<k_type, k_params, k_perm, k_pc, k_key, k_key_perm, k_ttl>>

VARIABLES
    c_in,           \* serialize_model: argument model
    c_cls,          \* deserialize_model: argument model_cls
    c_pc,           \* "args", "encoded" or "decoded"
    c_enc,          \* result of serialize_model(c_in)
    c_dec           \* result of deserialize_model(c_cls, text of c_enc)

codecVars == <<c_in, c_cls, c_pc, c_enc, c_dec>>

VARIABLES
    lst,            \* the Redis list under the name: newest entry first
    ll_args,        \* arguments of the last add_to_list_limited call
    ll_out          \* how that call ended

listVars == <<lst, ll_args, ll_out>>

VARIABLES
    tx_pc,          \* per caller of add_to_list_limited: "idle", "sent", "done"
    tx_args,        \* per caller: arguments value, max_items of its call
    tx_sent,        \* per caller: whether pipeline.execute() sent the commands
    tx_queue,       \* per caller: commands the store holds and has not run
    tx_done,        \* per caller: commands of its call the store has run
    tx_res,         \* per caller: the store's reply to the LPUSH (results[0])
    tx_out,         \* per caller: how its call ended
    tx_calls,       \* add_to_list_limited calls started so far
    seen,           \* what the last LRANGE 0 -1 of a reader returned
    seen_mid        \* whether at that read some call's value was pushed
                    \* and not yet trimmed

pipeVars == <<tx_pc, tx_args, tx_sent, tx_queue, tx_done, tx_res, tx_out, tx_calls,
              seen, seen_mid>>

VARIABLES
    db,             \* the store's keys and their values (DbAbsent: no such key)
    db_before,      \* the store when the current clear_cache call started
    cc_pc,          \* position inside clear_cache: "idle", "keys", "delete", "done"
    cc_pattern,     \* argument pattern
    cc_keys,        \* local `keys`
    cc_retry,       \* retry_count of the _execute_with_retry under way
    cc_last,        \* the last command issued and how the store answered it
    cc_deleted,     \* the keys the store removed for the current call
    cc_dels,        \* DEL commands issued by the current call
    cc_out,         \* how the current call ended
    cc_calls        \* clear_cache calls started so far

clearVars == <<db, db_before, cc_pc, cc_pattern, cc_keys, cc_retry, cc_last,
               cc_deleted, cc_dels, cc_out, cc_calls>>

VARIABLES
    s_client,       \* self._client of the singleton the threads share
    s_handles,      \* number of redis.Redis handles created so far
    s_period,       \* handles created since self._client was last set to None
    s_overwrote,    \* whether a new handle was stored over one still held
    s_op_handle,    \* the handle operations have run on since the last reset
    s_mixed,        \* whether an operation ran on another handle than that
    s_calls,        \* invocations started so far by all threads
    t_pc,           \* per thread: position inside _execute_with_retry
    t_retry,        \* per thread: local retry_count
    t_attempts,     \* per thread: loop iterations entered
    t_sleeps,       \* per thread: time.sleep calls made
    t_local,        \* per thread: local `client`, what _get_client returned
    t_out           \* per thread: how its invocation ended

sharedVars == <<s_client, s_handles, s_period, s_overwrote, s_op_handle,
                s_mixed, s_calls, t_pc, t_retry, t_attempts, t_sleeps, t_local,
                t_out>>

VARIABLES
    instance,       \* RedisClient._instance: NoInstance or the number of an object
    objects,        \* objects object.__new__ has made so far
    self_fields,    \* the fields of the instance
    pools,          \* redis.ConnectionPool(...) calls made so far
    ctor_n,         \* constructions RedisClient(...) made so far
    ctor_args,      \* arguments of the last construction
    ctor_reply,     \* what redis.ConnectionPool(...) did in the last
                    \* construction ("none": it was not called)
    ctor_out,       \* how the last construction went
    returned,       \* the objects the constructions have returned
    first_ok        \* the fields of the instance when the first construction
                    \* that succeeded returned (NoSelf: none has)

ctorVars == <<instance, objects, self_fields, pools, ctor_n, ctor_args,
              ctor_reply, ctor_out, returned, first_ok>>

(* ---------------------------------------------------------------------- *)
(* State of the calls get_key(category, key_type, identifier)             *)
(* ---------------------------------------------------------------------- *)
VARIABLES
    g_pkg,          \* package whose redis_schema module the call names
    g_args,         \* the positional arguments of the call
    g_out           \* how the call ended

prefixVars == <<g_pkg, g_args, g_out>>

(* ---------------------------------------------------------------------- *)
(* State of a pair of get_key calls                                       *)
(* ---------------------------------------------------------------------- *)
VARIABLES
    i_a,            \* key_type and params of the first call
    i_b,            \* key_type and params of the second call
    i_key_a,        \* how the first call ended
    i_key_b         \* how the second call ended

pairVars == <<i_a, i_b, i_key_a, i_key_b>>

(* ---------------------------------------------------------------------- *)
(* State of MarketDataService / OrderService and of the store behind them *)
(* ---------------------------------------------------------------------- *)
VARIABLES
    v_store,        \* the store: a set of entries, at most one per key
    v_origin,       \* for each key held, the call whose fetch wrote the entry
    v_call,         \* the service call made last: method and arguments
    v_reply,        \* what the Alpaca collaborator does when that call asks it
    v_held,         \* the entry the store held under the key at the lookup
    v_from,         \* the call whose fetch wrote that entry
    v_fetched,      \* the argument lists Alpaca was asked with by that call
    v_out,          \* how the call ended
    v_calls         \* service calls made so far

serviceVars == <<v_store, v_origin, v_call, v_reply, v_held, v_from, v_fetched,
                 v_out, v_calls>>

(* ---------------------------------------------------------------------- *)
(* State of concurrent cache_first calls for one key                      *)
(* ---------------------------------------------------------------------- *)
VARIABLES
    r_store,        \* the store: a set of entries, at most one per key
    r_pc,           \* position of each caller inside cache_first
    r_fetch,        \* the record each caller's fetch_source returns
    r_cached,       \* each caller's local `cached`
    r_data,         \* each caller's local `data`
    r_fetches,      \* calls each caller has made of its fetch_source
    r_out,          \* how each caller's call ended
    r_writes        \* the callers whose SETEX the store has run, in order

raceVars == <<r_store, r_pc, r_fetch, r_cached, r_data, r_fetches, r_out,
              r_writes>>

svcVars == <<prefixVars, pairVars, serviceVars, raceVars>>

laterVars == <<pipeVars, clearVars, sharedVars, ctorVars, svcVars>>

\* the variables of the specifications above, for the actions below
coreVars == <<retryVars, cacheVars, clockVars, keyVars, codecVars, listVars,
              pipeVars, clearVars, sharedVars, ctorVars>>

otherVars == <<keyVars, codecVars, listVars, laterVars>>

vars == <<retryVars, cacheVars, clockVars, otherVars>>

\* self._client = None
NoClient == 0

\* an invocation makes at most max_retries + 1 attempts; one more planned
\* reply than that is kept so that an attempt too many would have a reply
PlanLen == MaxRetriesBound + 2

\* redis.exceptions: ConnectionError and TimeoutError are the transient ones,
\* every other RedisError is not retried
TransientErrors == {"ConnectionError", "TimeoutError"}
NonTransientErrors == {"RedisError"}
StoreReplies == {"ok"} \cup TransientErrors \cup NonTransientErrors

\* The replies the store may give to the attempts of one invocation. An
\* invocation ends at the first reply that is not a transient error, so the
\* replies planned after it are never consumed and are fixed to "ok".
Plans ==
    {p \in [1..PlanLen -> StoreReplies] :
        \A i \in 1..PlanLen : \A j \in 1..PlanLen :
            (i < j /\ p[i] \notin TransientErrors) => p[j] = "ok"}

\* an exception object: its class, the attempt that observed it, and the
\* exception it wraps (none in this code base)
Exc(cls, at) == [cls |-> cls, at |-> at, cause |-> <<>>]
NoError == Exc("None", 0)
\* last_error or RedisError(f"Redis {operation_name} operation failed")
LastErrorOrDefault(e) == IF e = NoError THEN Exc("RedisError", 0) ELSE e

\* self._backoff_factor = 0.5 and self._max_backoff = 30, in milliseconds
BackoffFactorMs == 500
MaxBackoffMs == 30000
\* time.time() % 1, in thousandths of a second
Fractions == {0, 500, 999}
NoWait == -1

\* _handle_connection_error(operation, retry_count): the wait in
\* milliseconds; count is the argument retry_count, frac is time.time() % 1
handle_connection_error(count, frac) ==
    LET raw == BackoffFactorMs * (2 ^ count)
        backoff == IF MaxBackoffMs < raw THEN MaxBackoffMs ELSE raw
        jitter == backoff \div 10
    IN backoff + (jitter * (2 * frac - 1000)) \div 1000

NoOutcome == [kind |-> "none", exc |-> NoError]
Returned == [kind |-> "return", exc |-> NoError]
Raised(e) == [kind |-> "raise", exc |-> e]

\* how a call of ping() ends: the value it returns or the exception it raises
PingNone == [kind |-> "none", val |-> FALSE, exc |-> "None"]
PingReturns(v) == [kind |-> "return", val |-> v, exc |-> "None"]
PingRaises(e) == [kind |-> "raise", val |-> FALSE, exc |-> e]

\* ping without its try/except
ping_Reraises(o) ==
    IF o.kind = "return" THEN PingReturns(TRUE) ELSE PingRaises(o.exc.cls)

\* ping(): result = self._execute_with_retry("ping", lambda client:
\* client.ping()); return result; except Exception: return False. o is how
\* the invocation of _execute_with_retry ended; the store answers a ping that
\* it lets through with True.
ping(o) ==
    IF o.kind = "return" THEN PingReturns(TRUE) ELSE PingReturns(FALSE)

RetryInit ==
    /\ max_retries \in 0..MaxRetriesBound
    /\ client = NoClient
    /\ handles = 0
    /\ pc = "idle"
    /\ retry_count = 0
    /\ last_error = NoError
    /\ attempts = 0
    /\ sleeps = 0
    /\ plan = [i \in 1..PlanLen |-> "ok"]
    /\ used = <<>>
    /\ outcome = NoOutcome
    /\ calls = 0
    /\ wait_time = NoWait
    /\ ping_out = PingNone

\* entry of _execute_with_retry: retry_count = 0, last_error = None
Invoke ==
    /\ pc \in {"idle", "done"}
    /\ calls < MaxCalls
    /\ calls' = calls + 1
    /\ pc' = "loop"
    /\ retry_count' = 0
    /\ last_error' = NoError
    /\ attempts' = 0
    /\ sleeps' = 0
    /\ plan' \in Plans
    /\ used' = <<>>
    /\ outcome' = NoOutcome
    /\ wait_time' = NoWait
    /\ ping_out' = PingNone
    /\ UNCHANGED <<max_retries, client, handles, cacheVars, clockVars, otherVars>>

\* OnTransient with the retry budget cut one short (>= for >)
OnTransient_BreakAtLimit(cls, n, c) ==
    /\ last_error' = Exc(cls, n)
    /\ retry_count' = retry_count + 1
    /\ IF retry_count + 1 >= max_retries
         THEN /\ client' = c
              /\ pc' = "done"
              /\ outcome' = Raised(LastErrorOrDefault(Exc(cls, n)))
         ELSE /\ client' = NoClient
              /\ pc' = "sleep"
              /\ outcome' = outcome

\* OnTransient keeping the first error seen instead of the last
OnTransient_KeepsFirstError(cls, n, c) ==
    LET kept == IF last_error = NoError THEN Exc(cls, n) ELSE last_error
    IN /\ last_error' = kept
       /\ retry_count' = retry_count + 1
       /\ IF retry_count + 1 > max_retries
            THEN /\ client' = c
                 /\ pc' = "done"
                 /\ outcome' = Raised(LastErrorOrDefault(kept))
            ELSE /\ client' = NoClient
                 /\ pc' = "sleep"
                 /\ outcome' = outcome

\* OnTransient without `self._client = None`
OnTransient_KeepsClient(cls, n, c) ==
    /\ last_error' = Exc(cls, n)
    /\ retry_count' = retry_count + 1
    /\ client' = c
    /\ IF retry_count + 1 > max_retries
         THEN /\ pc' = "done"
              /\ outcome' = Raised(LastErrorOrDefault(Exc(cls, n)))
         ELSE /\ pc' = "sleep"
              /\ outcome' = outcome

\* except (ConnectionError, TimeoutError) as e: the handler of one attempt.
\* n is the number of the attempt that failed, c the value self._client has
\* when the handler starts.
OnTransient(cls, n, c) ==
    /\ last_error' = Exc(cls, n)
    /\ retry_count' = retry_count + 1
    /\ IF retry_count + 1 > max_retries
         THEN \* break, then raise last_error
              /\ client' = c
              /\ pc' = "done"
              /\ outcome' = Raised(LastErrorOrDefault(Exc(cls, n)))
         ELSE \* self._client = None, then the backoff sleep
              /\ client' = NoClient
              /\ pc' = "sleep"
              /\ outcome' = outcome

\* OnRedisError retrying like the transient handler
OnRedisError_Retried(cls, n, c) ==
    /\ last_error' = Exc(cls, n)
    /\ retry_count' = retry_count + 1
    /\ IF retry_count + 1 > max_retries
         THEN /\ client' = c
              /\ pc' = "done"
              /\ outcome' = Raised(LastErrorOrDefault(Exc(cls, n)))
         ELSE /\ client' = NoClient
              /\ pc' = "sleep"
              /\ outcome' = outcome

\* except RedisError as e: last_error = e; break; raise last_error
OnRedisError(cls, n, c) ==
    /\ last_error' = Exc(cls, n)
    /\ retry_count' = retry_count
    /\ client' = c
    /\ pc' = "done"
    /\ outcome' = Raised(LastErrorOrDefault(Exc(cls, n)))

\* _get_client when self._client is set: the handle is returned as it is
GetClientCached ==
    /\ pc = "loop"
    /\ retry_count <= max_retries
    /\ client # NoClient
    /\ pc' = "op"
    /\ attempts' = attempts + 1
    /\ used' = Append(used, client)
    /\ UNCHANGED <<max_retries, client, handles, retry_count, last_error,
                   sleeps, plan, outcome, calls, wait_time, ping_out, cacheVars,
                   clockVars,
                   otherVars>>

\* _get_client when self._client is None: a new handle is built from the pool
\* and pinged; r is the store's reply to the ping. An attempt the store lets
\* through is answered "ok"; one it fails is failed at the ping or, the ping
\* having passed, at the operation.
GetClientConnect(r) ==
    /\ pc = "loop"
    /\ retry_count <= max_retries
    /\ client = NoClient
    /\ r \in {"ok", plan[attempts + 1]}
    /\ handles' = handles + 1
    /\ attempts' = attempts + 1
    /\ IF r = "ok"
         THEN /\ client' = handles + 1
              /\ pc' = "op"
              /\ used' = Append(used, handles + 1)
              /\ UNCHANGED <<retry_count, last_error, outcome>>
         ELSE /\ used' = Append(used, NoClient)
              /\ IF r \in TransientErrors
                   THEN \* self._client = None; raise
                        OnTransient(r, attempts + 1, NoClient)
                   ELSE \* not caught in _get_client: _client keeps the handle
                        OnRedisError(r, attempts + 1, handles + 1)
    /\ ping_out' = IF pc' = "done" THEN ping(outcome') ELSE ping_out
    /\ UNCHANGED <<max_retries, sleeps, plan, calls, wait_time, cacheVars,
                   clockVars, otherVars>>

\* return operation(client, *args, **kwargs); r is the store's reply
RunOperation(r) ==
    /\ pc = "op"
    /\ r = plan[attempts]
    /\ IF r = "ok"
         THEN /\ pc' = "done"
              /\ outcome' = Returned
              /\ UNCHANGED <<client, retry_count, last_error>>
         ELSE IF r \in TransientErrors
                THEN OnTransient(r, attempts, client)
                ELSE OnRedisError(r, attempts, client)
    /\ ping_out' = IF pc' = "done" THEN ping(outcome') ELSE ping_out
    /\ UNCHANGED <<max_retries, handles, attempts, sleeps, plan, used, calls,
                   wait_time, cacheVars, clockVars, otherVars>>

\* wait_time = self._handle_connection_error(operation_name, retry_count);
\* time.sleep(wait_time), then the next evaluation of the while condition
Sleep(frac) ==
    /\ pc = "sleep"
    /\ wait_time' = handle_connection_error(retry_count, frac)
    /\ sleeps' = sleeps + 1
    /\ pc' = "loop"
    /\ UNCHANGED <<max_retries, client, handles, retry_count, last_error,
                   attempts, plan, used, outcome, calls, ping_out, cacheVars,
                   clockVars, otherVars>>

RetryNext ==
    \/ Invoke
    \/ GetClientCached
    \/ \E r \in StoreReplies : GetClientConnect(r)
    \/ \E r \in StoreReplies : RunOperation(r)
    \/ \E frac \in Fractions : Sleep(frac)

(* ---------------------------------------------------------------------- *)
(* trader_app.utils.redis_schema: keys and TTLs                            *)
(* ---------------------------------------------------------------------- *)
\* Text is a sequence of one-character strings; names the code writes as
\* literals ("cache", a key type, a parameter name) are kept as one token.

\* class RedisKeyType(str, Enum): the values of the members
RedisKeyType == {"account_summary", "positions", "stock_bars", "stock_quote"}

KEY_TTLS ==
    [account_summary |-> 300, positions |-> 300,
     stock_bars |-> 300, stock_quote |-> 60]

\* the dict `required` of get_key
required ==
    [account_summary |-> <<"user_id">>, positions |-> <<"user_id">>,
     stock_bars |-> <<"symbol", "timeframe">>, stock_quote |-> <<"symbol">>]

\* position of a parameter name in Python's string order
NameRank == [limit |-> 1, symbol |-> 2, timeframe |-> 3, user_id |-> 4]

\* a parameter value: None, or a string
PNone == [none |-> TRUE, s |-> <<>>]
PStr(s) == [none |-> FALSE, s |-> s]

\* A params dict is the sequence of its items in insertion order.
ParamNames(params) == {params[i].k : i \in 1..Len(params)}
ParamValue(params, name) ==
    params[CHOOSE i \in 1..Len(params) : params[i].k = name].v

\* str(v)
PyStr(v) == IF v.none THEN <<"N", "o", "n", "e">> ELSE v.s

\* ReplaceDelims without the second replace
ReplaceDelims_ColonOnly(s) ==
    [i \in 1..Len(s) |-> IF s[i] = ":" THEN "_" ELSE s[i]]

\* .replace(":", "_").replace("|", "_")
ReplaceDelims(s) ==
    [i \in 1..Len(s) |-> IF s[i] \in {":", "|"} THEN "_" ELSE s[i]]

RECURSIVE SortedNames(_)
\* sorted(params)
SortedNames(S) ==
    IF S = {} THEN <<>>
    ELSE LET m == CHOOSE x \in S : \A y \in S : NameRank[x] <= NameRank[y]
         IN <<m>> \o SortedNames(S \ {m})

\* the result of get_key: the key returned, or the exception raised, with
\* what its message says (msg) about which name (name)
KeyOk(k) ==
    [ok |-> TRUE, key |-> k, err |-> "None", msg |-> "None", name |-> "None"]
KeyErr(e, msg, name) ==
    [ok |-> FALSE, key |-> <<>>, err |-> e, msg |-> msg, name |-> name]

\* `r not in params or params[r] is None`
IsMissing(params, r) ==
    r \notin ParamNames(params) \/ ParamValue(params, r).none

\* the first name of the list req for which the loop of get_key raises
FirstMissing(req, params) ==
    req[CHOOSE i \in 1..Len(req) :
            /\ IsMissing(params, req[i])
            /\ \A j \in 1..(i - 1) : ~IsMissing(params, req[j])]

RECURSIVE JoinParts(_, _)
\* the tail of ":".join(parts): one ":k=v" per name
JoinParts(names, params) ==
    IF names = <<>> THEN <<>>
    ELSE <<":", Head(names), "=">>
            \o ReplaceDelims(PyStr(ParamValue(params, Head(names))))
            \o JoinParts(Tail(names), params)

\* get_key with `for k in params` for `for k in sorted(params)`
get_key_InsertionOrder(key_type, params) ==
    LET Parts[i \in 0..Len(params)] ==
            IF i = 0 THEN <<>>
            ELSE Parts[i - 1] \o <<":", params[i].k, "=">>
                              \o ReplaceDelims(PyStr(params[i].v))
    IN IF key_type \notin RedisKeyType
         THEN KeyErr("ValueError", "Invalid key_type", key_type)
       ELSE IF \E i \in 1..Len(required[key_type]) :
                   IsMissing(params, required[key_type][i])
         THEN KeyErr("ValueError", "Missing required param",
                     FirstMissing(required[key_type], params))
       ELSE KeyOk(<<"cache", ":", key_type>> \o Parts[Len(params)])

\* get_key accepting a required parameter whose value is None
get_key_NullAccepted(key_type, params) ==
    IF key_type \notin RedisKeyType
      THEN KeyErr("ValueError", "Invalid key_type", key_type)
    ELSE IF \E i \in 1..Len(required[key_type]) :
                required[key_type][i] \notin ParamNames(params)
      THEN KeyErr("ValueError", "Missing required param",
                  required[key_type][CHOOSE i \in 1..Len(required[key_type]) :
                      /\ required[key_type][i] \notin ParamNames(params)
                      /\ \A j \in 1..(i - 1) :
                            required[key_type][j] \in ParamNames(params)])
    ELSE KeyOk(<<"cache", ":", key_type>>
                 \o JoinParts(SortedNames(ParamNames(params)), params))

\* get_key with `parts = ["cache"]`: the key type left out of the key
get_key_TypeLeftOut(key_type, params) ==
    IF key_type \notin RedisKeyType
      THEN KeyErr("ValueError", "Invalid key_type", key_type)
    ELSE IF \E i \in 1..Len(required[key_type]) :
                IsMissing(params, required[key_type][i])
      THEN KeyErr("ValueError", "Missing required param",
                  FirstMissing(required[key_type], params))
    ELSE KeyOk(<<"cache">>
                 \o JoinParts(SortedNames(ParamNames(params)), params))

\* get_key(key_type, params), the definition in force (the second one)
get_key(key_type, params) ==
    IF key_type \notin RedisKeyType
      THEN KeyErr("ValueError", "Invalid key_type", key_type)
    ELSE IF \E i \in 1..Len(required[key_type]) :
                IsMissing(params, required[key_type][i])
      THEN KeyErr("ValueError", "Missing required param",
                  FirstMissing(required[key_type], params))
    ELSE KeyOk(<<"cache", ":", key_type>>
                 \o JoinParts(SortedNames(ParamNames(params)), params))

\* get_ttl_for_key answering TTL.SHORT of the prefix policy table
get_ttl_for_key_PolicyShort(key_type) ==
    IF key_type \notin DOMAIN KEY_TTLS
      THEN [ok |-> FALSE, ttl |-> 0, err |-> "ValueError"]
      ELSE [ok |-> TRUE, ttl |-> 600, err |-> "None"]

\* get_ttl_for_key falling back to five minutes for a type without a TTL
get_ttl_for_key_DefaultTtl(key_type) ==
    IF key_type \notin DOMAIN KEY_TTLS
      THEN [ok |-> TRUE, ttl |-> 300, err |-> "None"]
      ELSE [ok |-> TRUE, ttl |-> KEY_TTLS[key_type], err |-> "None"]

\* get_ttl_for_key(key_type)
get_ttl_for_key(key_type) ==
    IF key_type \notin DOMAIN KEY_TTLS
      THEN [ok |-> FALSE, ttl |-> 0, err |-> "ValueError"]
      ELSE [ok |-> TRUE, ttl |-> KEY_TTLS[key_type], err |-> "None"]


(* ---------------------------------------------------------------------- *)
(* trader_app.utils.redis_schema: serialize_model / deserialize_model      *)
(* ---------------------------------------------------------------------- *)
\* Python values a fetch can return:
\*   None, a BaseModel instance, a list, or something else (a dict).
\* f maps the field names of an instance to their values; items holds the
\* elements of a list.
PyNone == [t |-> "None", cls |-> "None", f |-> <<>>, items |-> <<>>]
PyDict == [t |-> "dict", cls |-> "None", f |-> <<>>, items |-> <<>>]
PyModel(cls, f) == [t |-> "model", cls |-> cls, f |-> f, items |-> <<>>]
PyList(items) == [t |-> "list", cls |-> "None", f |-> <<>>, items |-> items]

\* decimal.Decimal as_tuple(): sign, coefficient digits, exponent
Dec(sign, digits, exp) == [sign |-> sign, digits |-> digits, exp |-> exp]
\* datetime: wall-clock part to the second, microseconds as six digits, and
\* the UTC offset of an aware value ("" for a naive one)
DateTime(wall, us, off) == [wall |-> wall, us |-> us, off |-> off]

DigitChars == <<"0", "1", "2", "3", "4", "5", "6", "7", "8", "9">>
IsDigit(c) == \E i \in 1..10 : DigitChars[i] = c
DigitVal(c) == (CHOOSE i \in 1..10 : DigitChars[i] = c) - 1
AllDigits(s) == Len(s) > 0 /\ \A i \in 1..Len(s) : IsDigit(s[i])

RECURSIVE DigitsToNat(_)
DigitsToNat(s) ==
    IF s = <<>> THEN 0
    ELSE 10 * DigitsToNat(SubSeq(s, 1, Len(s) - 1)) + DigitVal(s[Len(s)])

RECURSIVE NatToDigits(_)
NatToDigits(n) ==
    IF n < 10 THEN <<DigitChars[n + 1]>>
    ELSE NatToDigits(n \div 10) \o <<DigitChars[(n % 10) + 1]>>

Zeros(n) == [i \in 1..n |-> "0"]

\* position of the first c in s, 0 when there is none
IndexOf(s, c) ==
    IF \E i \in 1..Len(s) : s[i] = c
      THEN CHOOSE i \in 1..Len(s) : s[i] = c /\ \A j \in 1..(i - 1) : s[j] # c
      ELSE 0

RECURSIVE StripLeadingZeros(_)
StripLeadingZeros(s) ==
    IF Len(s) > 1 /\ s[1] = "0" THEN StripLeadingZeros(Tail(s)) ELSE s

\* DecimalStr of d.normalize(): trailing zeros of the coefficient are dropped
DecimalStr_Normalized(d) ==
    LET Strip[i \in 0..Len(d.digits)] ==
            \* trailing zeros among the last i digits, counted from the end
            IF i = Len(d.digits) - 1 \/ i = Len(d.digits) THEN i
            ELSE IF d.digits[Len(d.digits) - i] = "0" THEN Strip[i + 1] ELSE i
        z == IF \A i \in 1..Len(d.digits) : d.digits[i] = "0"
               THEN Len(d.digits) - 1 ELSE Strip[0]
        digits == IF \A i \in 1..Len(d.digits) : d.digits[i] = "0"
                    THEN <<"0">> ELSE SubSeq(d.digits, 1, Len(d.digits) - z)
        exp == IF \A i \in 1..Len(d.digits) : d.digits[i] = "0"
                 THEN 0 ELSE d.exp + z
        n == Len(digits)
        leftdigits == exp + n
        dotplace == IF exp <= 0 /\ leftdigits > -6 THEN leftdigits ELSE 1
        intpart == IF dotplace <= 0 THEN <<"0">>
                   ELSE IF dotplace >= n
                          THEN digits \o Zeros(dotplace - n)
                          ELSE SubSeq(digits, 1, dotplace)
        fracpart == IF dotplace <= 0 THEN <<".">> \o Zeros(-dotplace) \o digits
                    ELSE IF dotplace >= n THEN <<>>
                    ELSE <<".">> \o SubSeq(digits, dotplace + 1, n)
        e == leftdigits - dotplace
        exppart == IF e = 0 THEN <<>>
                   ELSE IF e > 0 THEN <<"E", "+">> \o NatToDigits(e)
                   ELSE <<"E", "-">> \o NatToDigits(-e)
        sign == IF d.sign = 1 THEN <<"-">> ELSE <<>>
    IN sign \o intpart \o fracpart \o exppart

\* Decimal.__str__ (scientific notation, eng=False)
DecimalStr(d) ==
    LET n == Len(d.digits)
        leftdigits == d.exp + n
        dotplace == IF d.exp <= 0 /\ leftdigits > -6 THEN leftdigits ELSE 1
        intpart == IF dotplace <= 0 THEN <<"0">>
                   ELSE IF dotplace >= n
                          THEN d.digits \o Zeros(dotplace - n)
                          ELSE SubSeq(d.digits, 1, dotplace)
        fracpart == IF dotplace <= 0 THEN <<".">> \o Zeros(-dotplace) \o d.digits
                    ELSE IF dotplace >= n THEN <<>>
                    ELSE <<".">> \o SubSeq(d.digits, dotplace + 1, n)
        e == leftdigits - dotplace
        exppart == IF e = 0 THEN <<>>
                   ELSE IF e > 0 THEN <<"E", "+">> \o NatToDigits(e)
                   ELSE <<"E", "-">> \o NatToDigits(-e)
        sign == IF d.sign = 1 THEN <<"-">> ELSE <<>>
    IN sign \o intpart \o fracpart \o exppart

ParseOk(v) == [ok |-> TRUE, v |-> v]
ParseFail == [ok |-> FALSE, v |-> <<>>]

\* Decimal(str): [-] digits [. digits] [E (+|-) digits]
ParseDecimal(s) ==
    LET neg == Len(s) > 0 /\ s[1] = "-"
        body == IF neg THEN Tail(s) ELSE s
        epos == IndexOf(body, "E")
        mant == IF epos = 0 THEN body ELSE SubSeq(body, 1, epos - 1)
        etxt == IF epos = 0 THEN <<>> ELSE SubSeq(body, epos + 1, Len(body))
        eneg == Len(etxt) > 0 /\ etxt[1] = "-"
        edig == IF Len(etxt) > 0 /\ etxt[1] \in {"+", "-"} THEN Tail(etxt) ELSE etxt
        dpos == IndexOf(mant, ".")
        intp == IF dpos = 0 THEN mant ELSE SubSeq(mant, 1, dpos - 1)
        frac == IF dpos = 0 THEN <<>> ELSE SubSeq(mant, dpos + 1, Len(mant))
        coef == intp \o frac
        eval == IF epos = 0 THEN 0
                ELSE IF eneg THEN 0 - DigitsToNat(edig) ELSE DigitsToNat(edig)
    IN IF AllDigits(coef) /\ (epos = 0 \/ AllDigits(edig))
         THEN ParseOk(Dec(IF neg THEN 1 ELSE 0, StripLeadingZeros(coef),
                          eval - Len(frac)))
         ELSE ParseFail

\* IsoFormat without the UTC offset (strftime("%Y-%m-%dT%H:%M:%S.%f"))
IsoFormat_NoOffset(dt) ==
    <<dt.wall>> \o (IF dt.us = "000000" THEN <<>> ELSE <<".", dt.us>>)

\* datetime.isoformat(): the offset is written only for an aware value, the
\* fraction only when the microseconds are not zero
IsoFormat(dt) ==
    <<dt.wall>>
        \o (IF dt.us = "000000" THEN <<>> ELSE <<".", dt.us>>)
        \o (IF dt.off = "" THEN <<>> ELSE <<dt.off>>)

\* the date-time tokens text is built from
WallTokens == {"2024-05-01T15:30:00", "2024-05-01T15:31:00"}
OffsetTokens == {"+00:00", "-04:00"}
MicroTokens == {"000123", "500000"}

\* pydantic's datetime parsing of an ISO-8601 string
ParseIso(s) ==
    LET hasFrac == Len(s) >= 3 /\ s[2] = "."
        rest == IF hasFrac THEN SubSeq(s, 4, Len(s)) ELSE SubSeq(s, 2, Len(s))
    IN IF Len(s) = 0 \/ s[1] \notin WallTokens THEN ParseFail
       ELSE IF hasFrac /\ s[3] \notin MicroTokens THEN ParseFail
       ELSE IF rest = <<>>
              THEN ParseOk(DateTime(s[1], IF hasFrac THEN s[3] ELSE "000000", ""))
       ELSE IF Len(rest) = 1 /\ rest[1] \in OffsetTokens
              THEN ParseOk(DateTime(s[1], IF hasFrac THEN s[3] ELSE "000000",
                                    rest[1]))
       ELSE ParseFail

\* a JSON scalar: string, number or null
JStr(s) == [j |-> "str", s |-> s, n |-> 0]
JNum(n) == [j |-> "num", s |-> <<>>, n |-> n]
JNull == [j |-> "null", s |-> <<>>, n |-> 0]

\* a JSON text: an object ("obj", one element in objs), an array of objects
\* ("arr"), the text null, or a text that is not JSON ("raw")
JText(k, objs) == [k |-> k, objs |-> objs]

\* declared fields of the models, in declaration order
FieldsOf(cls) ==
    IF cls = "QuoteModel"
      THEN << [name |-> "symbol", kind |-> "str"],
              [name |-> "timestamp", kind |-> "datetime"],
              [name |-> "ask_price", kind |-> "Decimal"],
              [name |-> "ask_size", kind |-> "int"],
              [name |-> "bid_price", kind |-> "Decimal"],
              [name |-> "bid_size", kind |-> "int"] >>
    ELSE IF cls = "BarModel"
      THEN << [name |-> "timestamp", kind |-> "datetime"],
              [name |-> "open", kind |-> "Decimal"],
              [name |-> "high", kind |-> "Decimal"],
              [name |-> "low", kind |-> "Decimal"],
              [name |-> "close", kind |-> "Decimal"],
              [name |-> "volume", kind |-> "int"] >>
    ELSE <<>>

FieldNames(cls) == {FieldsOf(cls)[i].name : i \in 1..Len(FieldsOf(cls))}
FieldKind(cls, name) ==
    FieldsOf(cls)[CHOOSE i \in 1..Len(FieldsOf(cls)) :
                      FieldsOf(cls)[i].name = name].kind

\* json.dumps of one dumped field: `default` turns Decimal into str(obj) and
\* datetime into obj.isoformat(); str and int are written natively
DumpField(kind, v) ==
    IF kind = "Decimal" THEN JStr(DecimalStr(v))
    ELSE IF kind = "datetime" THEN JStr(IsoFormat(v))
    ELSE IF kind = "int" THEN JNum(v)
    ELSE JStr(v)

\* m.model_dump() written by json.dumps
DumpModel(m) ==
    [name \in FieldNames(m.cls) |-> DumpField(FieldKind(m.cls, name), m.f[name])]

SerOk(text) == [ok |-> TRUE, text |-> text, err |-> "None"]
SerErr(e) == [ok |-> FALSE, text |-> JText("raw", <<>>), err |-> e]

\* serialize_model(model)
serialize_model(model) ==
    IF model.t = "list"
      THEN IF \A i \in 1..Len(model.items) : model.items[i].t = "model"
             THEN SerOk(JText("arr", [i \in 1..Len(model.items) |->
                                          DumpModel(model.items[i])]))
             ELSE SerErr("AttributeError")   \* m.model_dump() on a non-model
    ELSE IF model.t = "model"
      THEN SerOk(JText("obj", <<DumpModel(model)>>))
    ELSE SerErr("TypeError")

\* pydantic validation of one field from its JSON value (lax mode)
ValidateField(kind, jv) ==
    IF kind = "str"
      THEN IF jv.j = "str" THEN ParseOk(jv.s) ELSE ParseFail
    ELSE IF kind = "int"
      THEN IF jv.j = "num" THEN ParseOk(jv.n)
           ELSE IF jv.j = "str" /\ AllDigits(jv.s) THEN ParseOk(DigitsToNat(jv.s))
           ELSE ParseFail
    ELSE IF kind = "Decimal"
      THEN IF jv.j = "str" THEN ParseDecimal(jv.s)
           ELSE IF jv.j = "num" /\ jv.n >= 0
                  THEN ParseOk(Dec(0, NatToDigits(jv.n), 0))
           ELSE IF jv.j = "num" THEN ParseOk(Dec(1, NatToDigits(0 - jv.n), 0))
           ELSE ParseFail
    ELSE IF jv.j = "str" THEN ParseIso(jv.s) ELSE ParseFail

\* the field_validator methods of BarModel and QuoteModel: v < 0 is rejected
IsNegative(kind, v) ==
    IF kind = "Decimal"
      THEN v.sign = 1 /\ \E i \in 1..Len(v.digits) : v.digits[i] # "0"
    ELSE IF kind = "int" THEN v < 0
    ELSE FALSE

\* model_cls.model_validate(item)
model_validate(cls, obj) ==
    IF /\ FieldNames(cls) \subseteq DOMAIN obj
       /\ \A name \in FieldNames(cls) :
             LET r == ValidateField(FieldKind(cls, name), obj[name])
             IN r.ok /\ ~IsNegative(FieldKind(cls, name), r.v)
      THEN ParseOk(PyModel(cls,
              [name \in FieldNames(cls) |->
                  ValidateField(FieldKind(cls, name), obj[name]).v]))
      ELSE ParseFail

DesOk(v) == [ok |-> TRUE, v |-> v, err |-> "None"]
DesErr == [ok |-> FALSE, v |-> PyNone, err |-> "ValueError"]

\* deserialize_model without the branch for a JSON array
deserialize_model_SingleOnly(model_cls, text) ==
    IF text.k = "obj" /\ model_validate(model_cls, text.objs[1]).ok
      THEN DesOk(model_validate(model_cls, text.objs[1]).v)
      ELSE DesErr

\* deserialize_model(model_cls, data), data being the JSON text: every
\* failure becomes ValueError
deserialize_model(model_cls, text) ==
    IF text.k = "arr"
      THEN IF \A i \in 1..Len(text.objs) : model_validate(model_cls, text.objs[i]).ok
             THEN DesOk(PyList([i \in 1..Len(text.objs) |->
                                   model_validate(model_cls, text.objs[i]).v]))
             ELSE DesErr
    ELSE IF text.k = "obj"
      THEN IF model_validate(model_cls, text.objs[1]).ok
             THEN DesOk(model_validate(model_cls, text.objs[1]).v)
             ELSE DesErr
    ELSE DesErr    \* json.loads failed, or model_validate(None)


(* ---------------------------------------------------------------------- *)
(* Values the fetch functions of the services return                       *)
(* ---------------------------------------------------------------------- *)
\* QuoteModel(symbol="AAPL", bid_price=Decimal("150.10"), bid_size=100,
\*            ask_price=Decimal("150.20"), ask_size=200,
\*            timestamp=datetime(2024, 5, 1, 15, 30))
QuoteA ==
    PyModel("QuoteModel",
        [symbol |-> <<"A", "A", "P", "L">>,
         timestamp |-> DateTime("2024-05-01T15:30:00", "000000", ""),
         ask_price |-> Dec(0, <<"1", "5", "0", "2", "0">>, -2),
         ask_size |-> 200,
         bid_price |-> Dec(0, <<"1", "5", "0", "1", "0">>, -2),
         bid_size |-> 100])

\* an aware timestamp with microseconds, Decimal("1E+2") and Decimal("0.05")
QuoteB ==
    PyModel("QuoteModel",
        [symbol |-> <<"A", "A", "P", "L">>,
         timestamp |-> DateTime("2024-05-01T15:31:00", "000123", "+00:00"),
         ask_price |-> Dec(0, <<"1">>, 2),
         ask_size |-> 0,
         bid_price |-> Dec(0, <<"5">>, -2),
         bid_size |-> 1])

BarA ==
    PyModel("BarModel",
        [timestamp |-> DateTime("2024-05-01T15:30:00", "000000", "+00:00"),
         open |-> Dec(0, <<"1", "5", "0", "0", "0">>, -2),
         high |-> Dec(0, <<"1", "5", "5", "0", "0">>, -2),
         low |-> Dec(0, <<"1", "4", "9", "0", "0">>, -2),
         close |-> Dec(0, <<"1", "5", "2", "0", "0">>, -2),
         volume |-> 10000])

\* Decimal("1E-7"), Decimal("10"), Decimal("0.00"), Decimal("152")
BarB ==
    PyModel("BarModel",
        [timestamp |-> DateTime("2024-05-01T15:31:00", "500000", "-04:00"),
         open |-> Dec(0, <<"1">>, -7),
         high |-> Dec(0, <<"1", "0">>, 0),
         low |-> Dec(0, <<"0">>, -2),
         close |-> Dec(0, <<"1", "5", "2">>, 0),
         volume |-> 0])


(* ---------------------------------------------------------------------- *)
(* trader_app.services.base_caching_service and the store behind it        *)
(* ---------------------------------------------------------------------- *)
AAPL == <<"A", "A", "P", "L">>
OneDay == <<"1", "D", "a", "y">>

\* calls the services make, and two calls that misuse the schema
QuoteRequest ==
    [key_type |-> "stock_quote",
     params |-> <<[k |-> "symbol", v |-> PStr(AAPL)]>>,
     model |-> "QuoteModel"]
BarsRequest ==
    [key_type |-> "stock_bars",
     params |-> <<[k |-> "symbol", v |-> PStr(AAPL)],
                  [k |-> "timeframe", v |-> PStr(OneDay)]>>,
     model |-> "BarModel"]
MissingParamRequest ==
    [key_type |-> "stock_bars",
     params |-> <<[k |-> "symbol", v |-> PStr(AAPL)]>>,
     model |-> "BarModel"]
UnknownTypeRequest ==
    [key_type |-> "not_a_key_type",
     params |-> <<[k |-> "symbol", v |-> PStr(AAPL)]>>,
     model |-> "QuoteModel"]
NullParamRequest ==
    [key_type |-> "stock_bars",
     params |-> <<[k |-> "symbol", v |-> PStr(AAPL)],
                  [k |-> "timeframe", v |-> PNone]>>,
     model |-> "BarModel"]
Requests ==
    {QuoteRequest, BarsRequest, MissingParamRequest, UnknownTypeRequest,
     NullParamRequest}

FetchReturns(v) == [raises |-> FALSE, exc |-> "None", val |-> v]
FetchRaises(e) == [raises |-> TRUE, exc |-> e, val |-> PyNone]

\* fetch_source: returns a record, a list of records, None or a value that
\* is no record, or raises one of the service exceptions
FetchPlans(req) ==
    {FetchReturns(PyNone), FetchReturns(PyDict),
     FetchRaises("AlpacaApiError"), FetchRaises("InvalidSymbolError")}
    \cup (IF req.model = "QuoteModel"
            THEN {FetchReturns(QuoteA), FetchReturns(QuoteB)}
            ELSE {FetchReturns(PyList(<<>>)), FetchReturns(PyList(<<BarA>>)),
                  FetchReturns(PyList(<<BarA, BarB>>)),
                  FetchReturns(PyList(<<BarA, PyDict>>))})

\* payloads written under a cache key by something else than set_cache:
\* not JSON, the JSON text null, an object without the model's fields,
\* and two well-formed ones: [] and the encoding of a quote
ForeignPayloads ==
    {JText("raw", <<>>), JText("null", <<>>),
     JText("obj", <<[symbol |-> JStr(AAPL)]>>),
     JText("arr", <<>>), JText("obj", <<DumpModel(QuoteB)>>)}

ValidKeys == {get_key(r.key_type, r.params).key :
                 r \in {q \in Requests : get_key(q.key_type, q.params).ok}}

\* Entry written by SET: the entry never expires
Entry_NoExpiry(key, text, ttl, by, origin) ==
    [present |-> TRUE, key |-> key, text |-> text, ttl |-> ttl, by |-> by,
     origin |-> origin, at |-> now, exp |-> -1]

\* an entry of the store, as SETEX key ttl text leaves it: origin is the
\* value set_cache encoded into text, at the clock when it was written, exp
\* the clock at which the store drops it (-1: never, written without expiry)
Entry(key, text, ttl, by, origin) ==
    [present |-> TRUE, key |-> key, text |-> text, ttl |-> ttl, by |-> by,
     origin |-> origin, at |-> now, exp |-> IF ttl > 0 THEN now + ttl ELSE -1]
Absent ==
    [present |-> FALSE, key |-> <<>>, text |-> JText("raw", <<>>), ttl |-> 0,
     by |-> "None", origin |-> PyNone, at |-> 0, exp |-> -1]

\* GET key
StoreGet(st, key) ==
    IF \E e \in st : e.key = key THEN CHOOSE e \in st : e.key = key ELSE Absent
\* SETEX as SET NX: an entry that is held is kept
StorePut_KeepsExisting(st, e) ==
    IF \E x \in st : x.key = e.key THEN st ELSE st \cup {e}

\* SETEX key ttl value: replaces the entry and its expiry
StorePut(st, e) == {x \in st : x.key # e.key} \cup {e}
StoreDel(st, key) == {x \in st : x.key # key}

CfNone == [kind |-> "none", val |-> PyNone, exc |-> "None"]
CfReturn(v) == [kind |-> "return", val |-> v, exc |-> "None"]
CfRaise(e) == [kind |-> "raise", val |-> PyNone, exc |-> e]

CacheInit ==
    /\ store = {}
    /\ store_before = {}
    /\ cf_pc = "idle"
    /\ cf_req = QuoteRequest
    /\ fetch_plan = FetchReturns(PyNone)
    /\ looked = Absent
    /\ get_reply = "none"
    /\ set_reply = "none"
    /\ cached = PyNone
    /\ data = PyNone
    /\ fetch_calls = 0
    /\ setex_log = <<>>
    /\ cf_out = CfNone

\* entry of cache_first(key_type, params, model, fetch_source)
CacheFirstCall(req, fp) ==
    /\ cf_pc \in {"idle", "done"}
    /\ cf_pc' = "get"
    /\ cf_req' = req
    /\ fetch_plan' = fp
    /\ looked' = Absent
    /\ get_reply' = "none"
    /\ set_reply' = "none"
    /\ cached' = PyNone
    /\ data' = PyNone
    /\ fetch_calls' = 0
    /\ setex_log' = <<>>
    /\ cf_out' = CfNone
    /\ store_before' = store
    /\ looked_at' = now
    /\ UNCHANGED <<store, now, written, retryVars, otherVars>>

GfcReturn(v) == [raised |-> FALSE, exc |-> "None", val |-> v]
GfcRaise(e) == [raised |-> TRUE, exc |-> e, val |-> PyNone]

\* get_from_cache without its try/except
get_from_cache_NoCatch(req, e, r) ==
    IF ~get_key(req.key_type, req.params).ok
      THEN GfcRaise(get_key(req.key_type, req.params).err)
    ELSE IF r # "ok" THEN GfcRaise(r)
    ELSE IF ~e.present THEN GfcReturn(PyNone)
    ELSE IF deserialize_model(req.model, e.text).ok
      THEN GfcReturn(deserialize_model(req.model, e.text).v)
    ELSE GfcRaise("ValueError")

\* get_from_cache with the call of get_key moved inside its try/except
get_from_cache_KeyInTry(req, e, r) ==
    IF ~get_key(req.key_type, req.params).ok THEN GfcReturn(PyNone)
    ELSE IF r # "ok" THEN GfcReturn(PyNone)
    ELSE IF ~e.present THEN GfcReturn(PyNone)
    ELSE IF deserialize_model(req.model, e.text).ok
      THEN GfcReturn(deserialize_model(req.model, e.text).v)
    ELSE GfcReturn(PyNone)

\* get_from_cache(key_type, params, model) when the store holds entry e under
\* the key and answers the GET with r: the value returned, or the exception
\* that leaves the method
get_from_cache(req, e, r) ==
    IF ~get_key(req.key_type, req.params).ok
      THEN GfcRaise(get_key(req.key_type, req.params).err)   \* outside the try
    ELSE IF r # "ok" THEN GfcReturn(PyNone)                  \* except Exception
    ELSE IF ~e.present THEN GfcReturn(PyNone)                \* value is None
    ELSE IF deserialize_model(req.model, e.text).ok
      THEN GfcReturn(deserialize_model(req.model, e.text).v)
    ELSE GfcReturn(PyNone)                                   \* except Exception

\* IsHit as the truthiness test `if cached`
IsHit_Truthy(c) == c # PyNone /\ ~(c.t = "list" /\ c.items = <<>>)

\* cache_first: `if cached is not None`
IsHit(c) == c # PyNone

\* cache_first: cached = self.get_from_cache(...); if cached is not None:
\* return cached. r is the store's reply to the GET.
GetFromCache(r) ==
    /\ cf_pc = "get"
    /\ LET k == get_key(cf_req.key_type, cf_req.params)
           e == IF k.ok THEN StoreGet(store, k.key) ELSE Absent
           g == get_from_cache(cf_req, e, r)
       IN /\ IF k.ok THEN get_reply' = r
                     ELSE r = "ok" /\ get_reply' = "none"   \* no GET is issued
          /\ looked' = e
          /\ IF g.raised
               THEN /\ cf_out' = CfRaise(g.exc)
                    /\ cf_pc' = "done"
                    /\ cached' = cached
               ELSE /\ cached' = g.val
                    /\ IF IsHit(g.val)
                         THEN cf_pc' = "done" /\ cf_out' = CfReturn(g.val)
                         ELSE cf_pc' = "fetch" /\ cf_out' = cf_out
    /\ looked_at' = now
    /\ UNCHANGED <<store, store_before, cf_req, fetch_plan, set_reply, data,
                   fetch_calls, setex_log, now, written, retryVars, otherVars>>

\* FetchSource turning a failed fetch into "not found"
FetchSource_SwallowsError ==
    /\ cf_pc = "fetch"
    /\ fetch_calls' = fetch_calls + 1
    /\ data' = fetch_plan.val
    /\ IF fetch_plan.val # PyNone
         THEN cf_pc' = "set" /\ cf_out' = cf_out
         ELSE cf_pc' = "done" /\ cf_out' = CfReturn(fetch_plan.val)
    /\ UNCHANGED <<store, store_before, cf_req, fetch_plan, looked, get_reply,
                   set_reply, cached, setex_log, clockVars, retryVars,
                   otherVars>>

\* FetchSource caching "not found" as the JSON text null
FetchSource_CachesNone ==
    /\ cf_pc = "fetch"
    /\ fetch_calls' = fetch_calls + 1
    /\ LET k == get_key(cf_req.key_type, cf_req.params).key
           cmd == [key |-> k, ttl |-> KEY_TTLS[cf_req.key_type],
                   text |-> JText("null", <<>>)]
       IN IF fetch_plan.raises
            THEN /\ cf_out' = CfRaise(fetch_plan.exc)
                 /\ cf_pc' = "done"
                 /\ data' = data
                 /\ UNCHANGED <<store, setex_log, written>>
            ELSE /\ data' = fetch_plan.val
                 /\ IF fetch_plan.val # PyNone
                      THEN /\ cf_pc' = "set" /\ cf_out' = cf_out
                           /\ UNCHANGED <<store, setex_log, written>>
                      ELSE /\ cf_pc' = "done"
                           /\ cf_out' = CfReturn(fetch_plan.val)
                           /\ setex_log' = Append(setex_log, cmd)
                           /\ store' = StorePut(store,
                                  Entry(k, cmd.text, cmd.ttl, "cache_first",
                                        PyNone))
                           /\ written' = [written EXCEPT ![k] = now]
    /\ UNCHANGED <<store_before, cf_req, fetch_plan, looked, get_reply,
                   set_reply, cached, now, looked_at, retryVars, otherVars>>

\* cache_first: data = fetch_source(); if data is not None: ...; return data
FetchSource ==
    /\ cf_pc = "fetch"
    /\ fetch_calls' = fetch_calls + 1
    /\ IF fetch_plan.raises
         THEN /\ cf_out' = CfRaise(fetch_plan.exc)
              /\ cf_pc' = "done"
              /\ data' = data
         ELSE /\ data' = fetch_plan.val
              /\ IF fetch_plan.val # PyNone
                   THEN cf_pc' = "set" /\ cf_out' = cf_out
                   ELSE cf_pc' = "done" /\ cf_out' = CfReturn(fetch_plan.val)
    /\ UNCHANGED <<store, store_before, cf_req, fetch_plan, looked, get_reply,
                   set_reply, cached, setex_log, clockVars, retryVars,
                   otherVars>>

ScDone(cmds) == [raised |-> FALSE, exc |-> "None", cmds |-> cmds]
ScRaise(e, cmds) == [raised |-> TRUE, exc |-> e, cmds |-> cmds]

\* set_cache without its try/except
set_cache_NoCatch(req, value, r) ==
    LET k == get_key(req.key_type, req.params)
        t == get_ttl_for_key(req.key_type)
        s == serialize_model(value)
        cmd == [key |-> k.key, ttl |-> t.ttl, text |-> s.text]
    IN IF ~k.ok THEN ScRaise(k.err, <<>>)
       ELSE IF ~t.ok THEN ScRaise(t.err, <<>>)
       ELSE IF ~s.ok THEN ScRaise(s.err, <<>>)
       ELSE IF r # "ok" THEN ScRaise(r, <<cmd>>)
       ELSE ScDone(<<cmd>>)

\* set_cache(key_type, params, value) when the store answers the SETEX with
\* r: the SETEX commands issued, and the exception that leaves the method
\* if one does
set_cache(req, value, r) ==
    LET k == get_key(req.key_type, req.params)
        t == get_ttl_for_key(req.key_type)
        s == serialize_model(value)
        cmd == [key |-> k.key, ttl |-> t.ttl, text |-> s.text]
    IN IF ~k.ok THEN ScRaise(k.err, <<>>)        \* outside the try
       ELSE IF ~t.ok THEN ScRaise(t.err, <<>>)   \* outside the try
       ELSE IF ~s.ok THEN ScDone(<<>>)           \* except Exception
       ELSE ScDone(<<cmd>>)                      \* setex; except Exception

\* cache_first: self.set_cache(key_type, params, data, is_list); return data.
\* r is the store's reply to the SETEX; a SETEX that times out may or may not
\* have been applied by the store.
SetCache(r, applied) ==
    /\ cf_pc = "set"
    /\ LET sc == set_cache(cf_req, data, r)
       IN /\ IF sc.cmds = <<>>
               THEN r = "ok" /\ ~applied /\ set_reply' = "none"
               ELSE /\ set_reply' = r
                    /\ applied = TRUE => r \in {"ok", "TimeoutError"}
                    /\ r = "ok" => applied = TRUE
          /\ setex_log' = setex_log \o sc.cmds
          /\ store' = IF applied
                        THEN StorePut(store,
                                 Entry(sc.cmds[1].key, sc.cmds[1].text,
                                       sc.cmds[1].ttl, "cache_first", data))
                        ELSE store
          /\ written' = IF applied
                          THEN [written EXCEPT ![sc.cmds[1].key] = now]
                          ELSE written
          /\ cf_out' = IF sc.raised THEN CfRaise(sc.exc) ELSE CfReturn(data)
    /\ cf_pc' = "done"
    /\ UNCHANGED <<store_before, cf_req, fetch_plan, looked, get_reply,
                   cached, data, fetch_calls, now, looked_at, retryVars,
                   otherVars>>

\* the store drops an entry that has a time-to-live, at a moment of its own
\* choosing (the clock is not looked at)
Expire(key) ==
    /\ StoreGet(store, key).present
    /\ StoreGet(store, key).ttl > 0
    /\ store' = StoreDel(store, key)
    /\ store_before' = StoreDel(store_before, key)
    /\ written' = [written EXCEPT ![key] = -1]
    /\ UNCHANGED <<cf_pc, cf_req, fetch_plan, looked, get_reply, set_reply,
                   cached, data, fetch_calls, setex_log, cf_out, now,
                   looked_at, retryVars, otherVars>>

\* another writer stores a payload of its own under a cache key, no expiry
ForeignWrite(key, text) ==
    /\ store' = StorePut(store, Entry(key, text, -1, "foreign", PyNone))
    /\ store_before' =
           StorePut(store_before, Entry(key, text, -1, "foreign", PyNone))
    /\ written' = [written EXCEPT ![key] = -1]
    /\ UNCHANGED <<cf_pc, cf_req, fetch_plan, looked, get_reply, set_reply,
                   cached, data, fetch_calls, setex_log, cf_out, now,
                   looked_at, retryVars, otherVars>>

CacheNext ==
    \/ \E req \in Requests : \E fp \in FetchPlans(req) : CacheFirstCall(req, fp)
    \/ \E r \in StoreReplies : GetFromCache(r)
    \/ FetchSource
    \/ \E r \in StoreReplies : \E applied \in BOOLEAN : SetCache(r, applied)
    \/ \E key \in ValidKeys : Expire(key)
    \/ \E key \in ValidKeys : \E text \in ForeignPayloads : ForeignWrite(key, text)

(* ---------------------------------------------------------------------- *)
(* Calls of get_key and get_ttl_for_key                                    *)
(* ---------------------------------------------------------------------- *)
\* "MSFT:|!"
MSFTDelims == <<"M", "S", "F", "T", ":", "|", "!">>

\* arguments the schema functions are called with: the key types and one
\* value that is no RedisKeyType; dicts of at most MaxParams items over the
\* parameter names the services use
KeyTypeArgs == RedisKeyType \cup {"not_a_key_type"}
ParamArgNames == {"limit", "symbol", "timeframe", "user_id"}
ParamArgValues == {PNone, PStr(AAPL), PStr(OneDay), PStr(MSFTDelims)}
ParamArgItems == {[k |-> n, v |-> x] : n \in ParamArgNames, x \in ParamArgValues}
ParamDicts ==
    {d \in UNION {[1..n -> ParamArgItems] : n \in 0..MaxParams} :
        \A i \in 1..Len(d) : \A j \in 1..Len(d) : d[i].k = d[j].k => i = j}

\* the dicts holding the items of d, inserted in any order
InsertionOrders(d) ==
    {q \in [1..Len(d) -> {d[i] : i \in 1..Len(d)}] :
        \A i \in 1..Len(d) : \E j \in 1..Len(d) : q[j] = d[i]}

KeyNotCalled == KeyErr("None", "None", "None")
TtlNotCalled == [ok |-> FALSE, ttl |-> 0, err |-> "None"]

KeyInit ==
    /\ k_type \in KeyTypeArgs
    /\ k_params \in ParamDicts
    /\ k_perm = k_params
    /\ k_pc = "args"
    /\ k_key = KeyNotCalled
    /\ k_key_perm = KeyNotCalled
    /\ k_ttl = TtlNotCalled

\* get_key(k_type, k_params), and get_key(k_type, q) for the same mapping
\* built in insertion order q
CallGetKey(q) ==
    /\ k_pc = "args"
    /\ q \in InsertionOrders(k_params)
    /\ k_perm' = q
    /\ k_key' = get_key(k_type, k_params)
    /\ k_key_perm' = get_key(k_type, q)
    /\ k_pc' = "key"
    /\ UNCHANGED <<k_type, k_params, k_ttl, retryVars, cacheVars, clockVars,
                   codecVars, listVars, laterVars>>

\* get_ttl_for_key(k_type)
CallGetTtlForKey ==
    /\ k_pc = "key"
    /\ k_ttl' = get_ttl_for_key(k_type)
    /\ k_pc' = "ttl"
    /\ UNCHANGED <<k_type, k_params, k_perm, k_key, k_key_perm, retryVars,
                   cacheVars, clockVars, codecVars, listVars, laterVars>>

KeyNext ==
    \/ \E q \in InsertionOrders(k_params) : CallGetKey(q)
    \/ CallGetTtlForKey

\* no schema call under way
KeyAtRest == KeyInit /\ k_type = "stock_quote" /\ k_params = <<>>

(* ---------------------------------------------------------------------- *)
(* Calls of serialize_model and deserialize_model                          *)
(* ---------------------------------------------------------------------- *)
\* timestamps: naive and aware, with and without microseconds
SampleDateTimes ==
    {DateTime("2024-05-01T15:30:00", us, off) :
        us \in {"000000", "000123"}, off \in {"", "+00:00", "-04:00"}}

\* Decimal("150.10"), "1E+2", "1.5E+3", "0.05", "1E-7", "0.00", "152", "10", "0"
SampleDecimals ==
    {Dec(0, <<"1", "5", "0", "1", "0">>, -2), Dec(0, <<"1">>, 2),
     Dec(0, <<"1", "5">>, 2), Dec(0, <<"5">>, -2), Dec(0, <<"1">>, -7),
     Dec(0, <<"0">>, -2), Dec(0, <<"1", "5", "2">>, 0), Dec(0, <<"1", "0">>, 0),
     Dec(0, <<"0">>, 0)}

\* records: the quote and the bar of the tests with another timestamp and
\* another price
QuoteWith(ts, price) ==
    PyModel("QuoteModel",
        [QuoteA.f EXCEPT !.timestamp = ts, !.bid_price = price])
BarWith(ts, price) ==
    PyModel("BarModel", [BarA.f EXCEPT !.timestamp = ts, !.close = price])

\* lists of at most MaxBatch records of one model
Batches(records) ==
    {PyList(l) : l \in UNION {[1..n -> records] : n \in 0..MaxBatch}}

\* arguments serialize_model is called with: records, lists of records, and
\* values that are neither (None, a dict, lists holding a dict)
CodecInputs ==
    {QuoteWith(ts, d) : ts \in SampleDateTimes, d \in SampleDecimals}
    \cup {BarWith(ts, d) : ts \in SampleDateTimes, d \in SampleDecimals}
    \cup Batches({BarA, BarB}) \cup Batches({QuoteA, QuoteB})
    \cup {PyNone, PyDict, PyList(<<PyDict>>), PyList(<<BarA, PyDict>>),
          PyList(<<PyDict, BarA>>)}

\* the model class the caller names when it reads the payload back
ModelOf(x) ==
    IF x.t = "model" THEN x.cls
    ELSE IF x.t = "list" /\ Len(x.items) > 0 /\ x.items[1].t = "model"
      THEN x.items[1].cls
    ELSE "BarModel"

EncNotCalled == SerErr("None")
DecNotCalled == [ok |-> FALSE, v |-> PyNone, err |-> "None"]

CodecInit ==
    /\ c_in \in CodecInputs
    /\ c_cls = ModelOf(c_in)
    /\ c_pc = "args"
    /\ c_enc = EncNotCalled
    /\ c_dec = DecNotCalled

\* s = serialize_model(c_in)
CallSerialize ==
    /\ c_pc = "args"
    /\ c_enc' = serialize_model(c_in)
    /\ c_pc' = "encoded"
    /\ UNCHANGED <<c_in, c_cls, c_dec, retryVars, cacheVars, clockVars,
                   keyVars, listVars, laterVars>>

\* deserialize_model(c_cls, s)
CallDeserialize ==
    /\ c_pc = "encoded"
    /\ c_enc.ok
    /\ c_dec' = deserialize_model(c_cls, c_enc.text)
    /\ c_pc' = "decoded"
    /\ UNCHANGED <<c_in, c_cls, c_enc, retryVars, cacheVars, clockVars,
                   keyVars, listVars, laterVars>>

CodecNext ==
    \/ CallSerialize
    \/ CallDeserialize

\* no codec call under way
CodecAtRest == CodecInit /\ c_in = PyNone

(* ---------------------------------------------------------------------- *)
(* markettrader RedisClient.add_to_list_limited                            *)
(* ---------------------------------------------------------------------- *)
\* LPUSH name value
LPush(l, v) == <<v>> \o l

\* LTRIM name start stop: negative indexes count from the end of the list,
\* stop is clamped to the last element, an empty range empties the list
LTrim(l, start, stop) ==
    LET n == Len(l)
        s0 == IF start < 0 THEN n + start ELSE start
        s1 == IF s0 < 0 THEN 0 ELSE s0
        e0 == IF stop < 0 THEN n + stop ELSE stop
        e1 == IF e0 >= n THEN n - 1 ELSE e0
    IN IF s1 > e1 \/ s1 >= n THEN <<>> ELSE SubSeq(l, s1 + 1, e1 + 1)

ListValues == {"a", "b"}

LlNone == [kind |-> "none", n |-> 0, exc |-> "None"]
LlReturn(n) == [kind |-> "return", n |-> n, exc |-> "None"]
LlRaise(e) == [kind |-> "raise", n |-> 0, exc |-> e]

ListInit ==
    /\ lst = <<>>
    /\ ll_args = [value |-> "None", max_items |-> 0]
    /\ ll_out = LlNone

\* add_to_list_limited(name, value, max_items). p is how the retried
\* client.pipeline() ends, r the store's reply to pipeline.execute(), which
\* runs LPUSH and LTRIM as one transaction; one that times out may or may not
\* have been applied by the store.
AddToListLimited(value, max_items, p, r, applied) ==
    /\ Len(lst) < MaxListed
    /\ ll_args' = [value |-> value, max_items |-> max_items]
    /\ IF p # "ok"
         THEN /\ r = "ok" /\ ~applied
              /\ ll_out' = LlRaise(p)
              /\ lst' = lst
         ELSE /\ applied = TRUE => r \in {"ok", "TimeoutError"}
              /\ r = "ok" => applied = TRUE
              /\ lst' = IF applied
                          THEN LTrim(LPush(lst, value), 0, max_items - 1)
                          ELSE lst
              /\ ll_out' = IF r = "ok"
                             THEN LlReturn(Len(LPush(lst, value)))  \* results[0]
                             ELSE LlRaise(r)
    /\ UNCHANGED <<retryVars, cacheVars, clockVars, keyVars, codecVars,
                   laterVars>>

ListNext ==
    \E value \in ListValues : \E max_items \in 0..MaxItemsArg :
        \E p \in StoreReplies : \E r \in StoreReplies : \E applied \in BOOLEAN :
            AddToListLimited(value, max_items, p, r, applied)

(* ---------------------------------------------------------------------- *)
(* add_to_list_limited under concurrent callers and readers                *)
(* ---------------------------------------------------------------------- *)
\* the threads that call add_to_list_limited on the same list
Callers == {"A", "B"}

\* a command of the pipeline
Cmd(op, value, start, stop) ==
    [op |-> op, value |-> value, start |-> start, stop |-> stop]
\* pipeline.lpush(name, value); pipeline.ltrim(name, 0, max_items - 1)
PipelineCommands(value, max_items) ==
    <<Cmd("LPUSH", value, 0, 0), Cmd("LTRIM", "None", 0, max_items - 1)>>

\* the store running one command on the list
RunCmd(l, cmd) ==
    IF cmd.op = "LPUSH" THEN LPush(l, cmd.value)
                        ELSE LTrim(l, cmd.start, cmd.stop)

RECURSIVE RunCmds(_, _)
\* the store running the commands of cmds in their order
RunCmds(l, cmds) ==
    IF cmds = <<>> THEN l ELSE RunCmds(RunCmd(l, Head(cmds)), Tail(cmds))

\* a pipeline built with transaction=False: the store runs the commands it
\* holds one at a time, other clients' commands in between
ExecStep_OneAtATime(queue) == 1
\* client.pipeline() is built with redis-py's default transaction=True:
\* execute() sends MULTI, the commands, EXEC, and the store runs all the
\* commands it holds for the call in one step
ExecStep(queue) == Len(queue)

PipeInit ==
    /\ tx_pc = [c \in Callers |-> "idle"]
    /\ tx_args = [c \in Callers |-> [value |-> "None", max_items |-> 0]]
    /\ tx_sent = [c \in Callers |-> FALSE]
    /\ tx_queue = [c \in Callers |-> <<>>]
    /\ tx_done = [c \in Callers |-> 0]
    /\ tx_res = [c \in Callers |-> 0]
    /\ tx_out = [c \in Callers |-> LlNone]
    /\ tx_calls = 0
    /\ seen = <<>>
    /\ seen_mid = FALSE

\* add_to_list_limited up to pipeline.execute() having sent the commands.
\* p is how the retried client.pipeline() ends: when it raises, nothing is
\* sent to the store.
PipeCall(c, value, max_items, p) ==
    /\ tx_pc[c] \in {"idle", "done"}
    /\ tx_queue[c] = <<>>
    /\ tx_calls < MaxCalls
    /\ tx_calls' = tx_calls + 1
    /\ tx_args' = [tx_args EXCEPT ![c] = [value |-> value, max_items |-> max_items]]
    /\ tx_done' = [tx_done EXCEPT ![c] = 0]
    /\ tx_res' = [tx_res EXCEPT ![c] = 0]
    /\ IF p # "ok"
         THEN /\ tx_out' = [tx_out EXCEPT ![c] = LlRaise(p)]
              /\ tx_pc' = [tx_pc EXCEPT ![c] = "done"]
              /\ tx_queue' = tx_queue
              /\ tx_sent' = [tx_sent EXCEPT ![c] = FALSE]
         ELSE /\ tx_out' = [tx_out EXCEPT ![c] = LlNone]
              /\ tx_pc' = [tx_pc EXCEPT ![c] = "sent"]
              /\ tx_queue' = [tx_queue EXCEPT ![c] = PipelineCommands(value, max_items)]
              /\ tx_sent' = [tx_sent EXCEPT ![c] = TRUE]
    /\ UNCHANGED <<seen, seen_mid, listVars, retryVars, cacheVars, clockVars,
                   keyVars, codecVars,
                   clearVars, sharedVars, ctorVars, svcVars>>

\* the store runs the next commands it holds for the call of c
StoreRun(c) ==
    LET k == ExecStep(tx_queue[c])
        now_run == SubSeq(tx_queue[c], 1, k)
    IN /\ tx_queue[c] # <<>>
       /\ lst' = RunCmds(lst, now_run)
       /\ tx_queue' = [tx_queue EXCEPT ![c] = SubSeq(tx_queue[c], k + 1, Len(tx_queue[c]))]
       /\ tx_done' = [tx_done EXCEPT ![c] = tx_done[c] + k]
       /\ tx_res' = [tx_res EXCEPT ![c] =
                        IF tx_done[c] = 0 THEN Len(LPush(lst, tx_args[c].value))
                                          ELSE tx_res[c]]
       /\ UNCHANGED <<tx_pc, tx_args, tx_sent, tx_out, tx_calls, seen, seen_mid,
                      ll_args, ll_out, retryVars, cacheVars, clockVars, keyVars, codecVars,
                   clearVars, sharedVars, ctorVars, svcVars>>

\* results = pipeline.execute(); return results[0]
PipeReply(c) ==
    /\ tx_pc[c] = "sent"
    /\ tx_queue[c] = <<>>
    /\ tx_out' = [tx_out EXCEPT ![c] = LlReturn(tx_res[c])]
    /\ tx_pc' = [tx_pc EXCEPT ![c] = "done"]
    /\ UNCHANGED <<tx_args, tx_sent, tx_queue, tx_done, tx_res, tx_calls, seen,
                   seen_mid,
                   listVars, retryVars, cacheVars, clockVars, keyVars, codecVars,
                   clearVars, sharedVars, ctorVars, svcVars>>

\* pipeline.execute() raises e: no reply within socket_timeout, or the
\* connection is lost before the reply is read. The store has run the
\* commands, or still holds them and runs them later.
PipeReplyLost(c, e) ==
    /\ tx_pc[c] = "sent"
    /\ tx_out' = [tx_out EXCEPT ![c] = LlRaise(e)]
    /\ tx_pc' = [tx_pc EXCEPT ![c] = "done"]
    /\ UNCHANGED <<tx_args, tx_sent, tx_queue, tx_done, tx_res, tx_calls, seen,
                   seen_mid,
                   listVars, retryVars, cacheVars, clockVars, keyVars, codecVars,
                   clearVars, sharedVars, ctorVars, svcVars>>

\* pipeline.execute() raises e because the commands did not reach the store
\* or the store refused them: none of them is run
PipeAbort(c, e) ==
    /\ tx_pc[c] = "sent"
    /\ tx_queue[c] # <<>>
    /\ tx_done[c] = 0
    /\ tx_queue' = [tx_queue EXCEPT ![c] = <<>>]
    /\ tx_out' = [tx_out EXCEPT ![c] = LlRaise(e)]
    /\ tx_pc' = [tx_pc EXCEPT ![c] = "done"]
    /\ UNCHANGED <<tx_args, tx_sent, tx_done, tx_res, tx_calls, seen, seen_mid,
                   listVars, retryVars, cacheVars, clockVars, keyVars, codecVars,
                   clearVars, sharedVars, ctorVars, svcVars>>

\* a reader's LRANGE name 0 -1
ReadList ==
    /\ seen' = lst
    /\ seen_mid' = (\E c \in Callers : tx_done[c] > 0 /\ tx_queue[c] # <<>>)
    /\ UNCHANGED <<tx_pc, tx_args, tx_sent, tx_queue, tx_done, tx_res, tx_out,
                   tx_calls,
                   listVars, retryVars, cacheVars, clockVars, keyVars, codecVars,
                   clearVars, sharedVars, ctorVars, svcVars>>

PipeNext ==
    \/ \E c \in Callers : \E value \in ListValues : \E max_items \in 0..MaxItemsArg :
          \E p \in StoreReplies : PipeCall(c, value, max_items, p)
    \/ \E c \in Callers : StoreRun(c)
    \/ \E c \in Callers : PipeReply(c)
    \/ \E c \in Callers : \E e \in TransientErrors : PipeReplyLost(c, e)
    \/ \E c \in Callers : \E e \in {"ConnectionError", "RedisError"} : PipeAbort(c, e)
    \/ ReadList

(* ---------------------------------------------------------------------- *)
(* markettrader RedisClient.clear_cache                                    *)
(* ---------------------------------------------------------------------- *)
\* the keys the store may hold, and the value "absent" of a key it does not
DbKeys ==
    { <<"cache", ":", "quote", ":", "AAPL">>,
      <<"cache", ":", "bars", ":", "AAPL">>,
      <<"session", ":", "active">> }
DbAbsent == "absent"
DbValues == {"v1", "v2"}
\* the patterns clear_cache is called with; "*" is the default
Patterns ==
    { <<"*">>, <<"cache", ":", "*">>, <<"cache", ":", "*", ":", "AAPL">>,
      <<"session", ":", "active">>, <<"order", ":", "*">> }

RECURSIVE GlobMatch(_, _)
\* Redis glob matching of the key s against the pattern p: "*" stands for
\* any run of text, anything else for itself
GlobMatch(p, s) ==
    IF p = <<>> THEN s = <<>>
    ELSE IF Head(p) = "*"
           THEN \/ GlobMatch(Tail(p), s)
                \/ (s # <<>> /\ GlobMatch(p, Tail(s)))
           ELSE s # <<>> /\ Head(s) = Head(p) /\ GlobMatch(Tail(p), Tail(s))

\* KEYS pattern
DbKeysMatching(d, pattern) ==
    {k \in DbKeys : d[k] # DbAbsent /\ GlobMatch(pattern, k)}
\* DEL k1 k2 ...: the keys removed (the reply is their number) and the store
\* afterwards
DbRemoved(d, ks) == {k \in ks : d[k] # DbAbsent}
DbDelete(d, ks) == [k \in DbKeys |-> IF k \in ks THEN DbAbsent ELSE d[k]]

\* the last command issued and the store's reply to it
CcNoCmd == [cmd |-> "none", reply |-> "none"]
CcCmd(cmd, reply) == [cmd |-> cmd, reply |-> reply]

\* clear_cache catching the error of a step and reporting nothing deleted
ClearFailed_Swallowed(e) == LlReturn(0)
\* clear_cache has no try/except: what _execute_with_retry raises at the
\* keys step or at the delete step leaves clear_cache as it is
ClearFailed(e) == LlRaise(e)

ClearInit ==
    /\ db \in [DbKeys -> DbValues \cup {DbAbsent}]
    /\ db_before = db
    /\ cc_pc = "idle"
    /\ cc_pattern = <<>>
    /\ cc_keys = {}
    /\ cc_retry = 0
    /\ cc_last = CcNoCmd
    /\ cc_deleted = {}
    /\ cc_dels = 0
    /\ cc_out = LlNone
    /\ cc_calls = 0

\* entry of clear_cache(pattern), up to the entry of
\* _execute_with_retry("keys", ...)
ClearCall(pattern) ==
    /\ cc_pc \in {"idle", "done"}
    /\ cc_calls < MaxCalls
    /\ cc_calls' = cc_calls + 1
    /\ cc_pattern' = pattern
    /\ db_before' = db
    /\ cc_pc' = "keys"
    /\ cc_keys' = {}
    /\ cc_retry' = 0
    /\ cc_last' = CcNoCmd
    /\ cc_deleted' = {}
    /\ cc_dels' = 0
    /\ cc_out' = LlNone
    /\ UNCHANGED <<db, pipeVars, sharedVars, ctorVars, svcVars, keyVars, codecVars, listVars, retryVars,
                   cacheVars, clockVars>>

\* one attempt of _execute_with_retry("keys", client.keys(pattern)); r is
\* the store's reply. `if not keys: return 0` follows a successful one.
KeysAttempt(r) ==
    /\ cc_pc = "keys"
    /\ cc_last' = CcCmd("KEYS", r)
    /\ IF r = "ok"
         THEN LET keys == DbKeysMatching(db, cc_pattern)
              IN /\ cc_keys' = keys
                 /\ cc_retry' = 0
                 /\ IF keys = {}
                      THEN cc_pc' = "done" /\ cc_out' = LlReturn(0)
                      ELSE cc_pc' = "delete" /\ cc_out' = cc_out
         ELSE IF r \in TransientErrors /\ cc_retry + 1 <= max_retries
                THEN /\ cc_retry' = cc_retry + 1
                     /\ UNCHANGED <<cc_pc, cc_keys, cc_out>>
                ELSE /\ cc_pc' = "done"
                     /\ cc_out' = ClearFailed(r)
                     /\ UNCHANGED <<cc_retry, cc_keys>>
    /\ UNCHANGED <<db, db_before, cc_pattern, cc_deleted, cc_dels, cc_calls,
                   pipeVars, sharedVars, ctorVars, svcVars, keyVars, codecVars, listVars, retryVars,
                   cacheVars, clockVars>>

\* one attempt of _execute_with_retry("delete", client.delete(*keys)); r is
\* what the attempt ends with. An attempt that ends with a transient error
\* has reached the store (applied) or has not.
DeleteAttempt(r, applied) ==
    /\ cc_pc = "delete"
    /\ r = "ok" => applied
    /\ r \in NonTransientErrors => ~applied
    /\ cc_last' = CcCmd("DEL", r)
    /\ cc_dels' = cc_dels + 1
    /\ db' = IF applied THEN DbDelete(db, cc_keys) ELSE db
    /\ cc_deleted' = IF applied THEN cc_deleted \cup DbRemoved(db, cc_keys)
                                ELSE cc_deleted
    /\ IF r = "ok"
         THEN /\ cc_pc' = "done"
              /\ cc_out' = LlReturn(Cardinality(DbRemoved(db, cc_keys)))
              /\ UNCHANGED cc_retry
         ELSE IF r \in TransientErrors /\ cc_retry + 1 <= max_retries
                THEN /\ cc_retry' = cc_retry + 1
                     /\ UNCHANGED <<cc_pc, cc_out>>
                ELSE /\ cc_pc' = "done"
                     /\ cc_out' = ClearFailed(r)
                     /\ UNCHANGED cc_retry
    /\ UNCHANGED <<db_before, cc_pattern, cc_keys, cc_calls, pipeVars, sharedVars, ctorVars, svcVars, keyVars,
                   codecVars, listVars, retryVars, cacheVars, clockVars>>

ClearNext ==
    \/ \E pattern \in Patterns : ClearCall(pattern)
    \/ \E r \in StoreReplies : KeysAttempt(r)
    \/ \E r \in StoreReplies : \E applied \in BOOLEAN : DeleteAttempt(r, applied)

(* ---------------------------------------------------------------------- *)
(* _get_client and _execute_with_retry under concurrent callers            *)
(* ---------------------------------------------------------------------- *)
\* the threads that share the RedisClient singleton
Threads == {"T1", "T2"}

TNoOutcome == [kind |-> "none", cls |-> "None"]
TReturned == [kind |-> "return", cls |-> "None"]
TRaised(cls) == [kind |-> "raise", cls |-> cls]

SharedInit ==
    /\ s_client = NoClient
    /\ s_handles = 0
    /\ s_period = 0
    /\ s_overwrote = FALSE
    /\ s_op_handle = NoClient
    /\ s_mixed = FALSE
    /\ s_calls = 0
    /\ t_pc = [t \in Threads |-> "idle"]
    /\ t_retry = [t \in Threads |-> 0]
    /\ t_attempts = [t \in Threads |-> 0]
    /\ t_sleeps = [t \in Threads |-> 0]
    /\ t_local = [t \in Threads |-> NoClient]
    /\ t_out = [t \in Threads |-> TNoOutcome]

\* entry of _execute_with_retry in thread t: retry_count = 0
TInvoke(t) ==
    /\ t_pc[t] \in {"idle", "done"}
    /\ s_calls < MaxCalls
    /\ s_calls' = s_calls + 1
    /\ t_pc' = [t_pc EXCEPT ![t] = "check"]
    /\ t_retry' = [t_retry EXCEPT ![t] = 0]
    /\ t_attempts' = [t_attempts EXCEPT ![t] = 0]
    /\ t_sleeps' = [t_sleeps EXCEPT ![t] = 0]
    /\ t_local' = [t_local EXCEPT ![t] = NoClient]
    /\ t_out' = [t_out EXCEPT ![t] = TNoOutcome]
    /\ UNCHANGED <<s_client, s_handles, s_period, s_overwrote, s_op_handle,
                   s_mixed, pipeVars, clearVars, ctorVars, svcVars, keyVars, codecVars, listVars,
                   retryVars, cacheVars, clockVars>>

\* while retry_count <= self.max_retries: ... _get_client: `if not
\* self._client:`, one read of the shared field
TCheck(t) ==
    /\ t_pc[t] = "check"
    /\ t_retry[t] <= max_retries
    /\ t_attempts' = [t_attempts EXCEPT ![t] = t_attempts[t] + 1]
    /\ t_pc' = [t_pc EXCEPT ![t] = IF s_client = NoClient THEN "create" ELSE "ret"]
    /\ UNCHANGED <<s_client, s_handles, s_period, s_overwrote, s_op_handle,
                   s_mixed, s_calls, t_retry, t_sleeps, t_local, t_out, pipeVars,
                   clearVars, ctorVars, svcVars, keyVars, codecVars, listVars, retryVars, cacheVars,
                   clockVars>>

\* self._client = redis.Redis(connection_pool=self._connection_pool)
TCreate(t) ==
    /\ t_pc[t] = "create"
    /\ s_handles' = s_handles + 1
    /\ s_client' = s_handles + 1
    /\ s_period' = s_period + 1
    /\ s_overwrote' = (s_overwrote \/ s_client # NoClient)
    /\ t_pc' = [t_pc EXCEPT ![t] = "ping"]
    /\ UNCHANGED <<s_op_handle, s_mixed, s_calls, t_retry, t_attempts, t_sleeps,
                   t_local, t_out, pipeVars, clearVars, ctorVars, svcVars, keyVars, codecVars,
                   listVars, retryVars, cacheVars, clockVars>>

\* the thread t leaves its attempt with the exception cls. The transient
\* ones are handled as in OnTransient (retry_count += 1; break, or
\* self._client = None and the sleep), a RedisError ends the invocation,
\* and any other exception is caught by neither except clause.
TFail(t, cls) ==
    IF cls \in TransientErrors
      THEN /\ t_retry' = [t_retry EXCEPT ![t] = t_retry[t] + 1]
           /\ IF t_retry[t] + 1 > max_retries
                THEN /\ t_pc' = [t_pc EXCEPT ![t] = "done"]
                     /\ t_out' = [t_out EXCEPT ![t] = TRaised(cls)]
                     /\ UNCHANGED <<s_client, s_period, s_op_handle>>
                ELSE /\ t_pc' = [t_pc EXCEPT ![t] = "sleep"]
                     /\ t_out' = t_out
                     /\ s_client' = NoClient
                     /\ s_period' = 0
                     /\ s_op_handle' = NoClient
      ELSE /\ t_pc' = [t_pc EXCEPT ![t] = "done"]
           /\ t_out' = [t_out EXCEPT ![t] = TRaised(cls)]
           /\ UNCHANGED <<t_retry, s_client, s_period, s_op_handle>>

\* self._client.ping(): a second read of the shared field, which another
\* thread may have set to None meanwhile; r is the store's reply. On a
\* transient error _get_client sets self._client = None and re-raises.
TPing(t, r) ==
    /\ t_pc[t] = "ping"
    /\ IF s_client = NoClient
         THEN r = "ok" /\ TFail(t, "AttributeError")
         ELSE IF r = "ok"
                THEN /\ t_pc' = [t_pc EXCEPT ![t] = "ret"]
                     /\ UNCHANGED <<s_client, s_period, s_op_handle, t_retry, t_out>>
                ELSE IF r \in TransientErrors /\ t_retry[t] + 1 > max_retries
                       THEN \* self._client = None in _get_client, then break
                            /\ t_retry' = [t_retry EXCEPT ![t] = t_retry[t] + 1]
                            /\ t_pc' = [t_pc EXCEPT ![t] = "done"]
                            /\ t_out' = [t_out EXCEPT ![t] = TRaised(r)]
                            /\ s_client' = NoClient
                            /\ s_period' = 0
                            /\ s_op_handle' = NoClient
                       ELSE TFail(t, r)
    /\ UNCHANGED <<s_handles, s_overwrote, s_mixed, s_calls, t_attempts, t_sleeps,
                   t_local, pipeVars, clearVars, ctorVars, svcVars, keyVars, codecVars, listVars,
                   retryVars, cacheVars, clockVars>>

\* return self._client: a further read of the shared field
TReturn(t) ==
    /\ t_pc[t] = "ret"
    /\ t_local' = [t_local EXCEPT ![t] = s_client]
    /\ t_pc' = [t_pc EXCEPT ![t] = "op"]
    /\ UNCHANGED <<s_client, s_handles, s_period, s_overwrote, s_op_handle,
                   s_mixed, s_calls, t_retry, t_attempts, t_sleeps, t_out,
                   pipeVars, clearVars, ctorVars, svcVars, keyVars, codecVars, listVars, retryVars,
                   cacheVars, clockVars>>

\* return operation(client, *args, **kwargs) on the handle _get_client
\* returned; r is the store's reply. An operation on None raises
\* AttributeError.
TOperation(t, r) ==
    /\ t_pc[t] = "op"
    /\ IF t_local[t] = NoClient
         THEN /\ r = "ok"
              /\ TFail(t, "AttributeError")
              /\ s_mixed' = s_mixed
         ELSE /\ s_mixed' = (s_mixed \/ s_op_handle \notin {NoClient, t_local[t]})
              /\ IF r = "ok"
                   THEN /\ t_pc' = [t_pc EXCEPT ![t] = "done"]
                        /\ t_out' = [t_out EXCEPT ![t] = TReturned]
                        /\ s_op_handle' = t_local[t]
                        /\ UNCHANGED <<s_client, s_period, t_retry>>
                   ELSE TFail(t, r)
    /\ UNCHANGED <<s_handles, s_overwrote, s_calls, t_attempts, t_sleeps, t_local,
                   pipeVars, clearVars, ctorVars, svcVars, keyVars, codecVars, listVars, retryVars,
                   cacheVars, clockVars>>

\* time.sleep(wait_time), then the next evaluation of the while condition
TSleep(t) ==
    /\ t_pc[t] = "sleep"
    /\ t_sleeps' = [t_sleeps EXCEPT ![t] = t_sleeps[t] + 1]
    /\ t_pc' = [t_pc EXCEPT ![t] = "check"]
    /\ UNCHANGED <<s_client, s_handles, s_period, s_overwrote, s_op_handle,
                   s_mixed, s_calls, t_retry, t_attempts, t_local, t_out,
                   pipeVars, clearVars, ctorVars, svcVars, keyVars, codecVars, listVars, retryVars,
                   cacheVars, clockVars>>

SharedNext ==
    \/ \E t \in Threads : TInvoke(t)
    \/ \E t \in Threads : TCheck(t)
    \/ \E t \in Threads : TCreate(t)
    \/ \E t \in Threads : \E r \in StoreReplies : TPing(t, r)
    \/ \E t \in Threads : TReturn(t)
    \/ \E t \in Threads : \E r \in StoreReplies : TOperation(t, r)
    \/ \E t \in Threads : TSleep(t)

(* ---------------------------------------------------------------------- *)
(* RedisClient.__new__, __init__ and _create_connection_pool               *)
(* ---------------------------------------------------------------------- *)
\* RedisClient._instance = None
NoInstance == 0
\* config.REDIS_HOST and config.REDIS_PORT
ConfigHost == "localhost"
ConfigPort == "6379"

\* arguments host, port and max_retries of a construction; "None" is the
\* default of host and port, "" and "0" are the other values Python's `or`
\* takes for false
HostArgs == {"None", "", "badhost"}
PortArgs == {"None", "0", "9999"}
CtorArgs ==
    [host : HostArgs, port : PortArgs, max_retries : 0..MaxRetriesBound]
NoArgs == [host |-> "None", port |-> "None", max_retries |-> 0]
\* v or default
PyOr(v, default) == IF v \in {"None", "", "0"} THEN default ELSE v

\* what redis.ConnectionPool(...) may raise
PoolErrors == {"ValueError", "ConnectionError"}

\* the fields of the instance: _initialized, host, port, max_retries,
\* _connection_pool (0: None, otherwise the number of the pool)
NoSelf == [initialized |-> FALSE, host |-> "None", port |-> "None",
           max_retries |-> 0, pool |-> 0]

\* how a construction went: the instance returned or the exception raised,
\* the redis.ConnectionPool(...) calls and the sleeps it made
CtorNone == [kind |-> "none", obj |-> NoInstance, exc |-> "None",
             pool_calls |-> 0, slept |-> 0]
CtorResult(kind, obj, exc, pool_calls, slept) ==
    [kind |-> kind, obj |-> obj, exc |-> exc, pool_calls |-> pool_calls,
     slept |-> slept]

\* _create_connection_pool run through the retry loop: a failing
\* construction of the pool is repeated max_retries times, with a sleep
\* before each repetition
create_connection_pool_Retried(r, m) ==
    [calls |-> IF r = "ok" THEN 1 ELSE m + 1,
     slept |-> IF r = "ok" THEN 0 ELSE m,
     exc |-> IF r = "ok" THEN "None" ELSE r]
\* _create_connection_pool: one redis.ConnectionPool(...) call inside
\* try/except Exception: log and `raise`; r is what that call does, m is
\* self.max_retries
create_connection_pool(r, m) ==
    [calls |-> 1, slept |-> 0, exc |-> IF r = "ok" THEN "None" ELSE r]

\* __init__ without the `if self._initialized: return`
RedisClient_init_NoGuard(self, args, r, next_pool) ==
    LET made == create_connection_pool(r, args.max_retries)
    IN [self |-> [initialized |-> (made.exc = "None"),
                  host |-> PyOr(args.host, ConfigHost),
                  port |-> PyOr(args.port, ConfigPort),
                  max_retries |-> args.max_retries,
                  pool |-> IF made.exc = "None" THEN next_pool ELSE 0],
        pool_calls |-> made.calls, slept |-> made.slept, exc |-> made.exc]

\* __init__(self, host, port, ..., max_retries): the fields of self
\* afterwards, the redis.ConnectionPool(...) calls and sleeps made, and the
\* exception raised ("None": it returned). r is what
\* redis.ConnectionPool(...) does, next_pool the number of the pool it
\* builds.
RedisClient_init(self, args, r, next_pool) ==
    IF self.initialized
      THEN [self |-> self, pool_calls |-> 0, slept |-> 0, exc |-> "None"]
      ELSE LET made == create_connection_pool(r, args.max_retries)
           IN [self |-> [initialized |-> (made.exc = "None"),
                         host |-> PyOr(args.host, ConfigHost),
                         port |-> PyOr(args.port, ConfigPort),
                         max_retries |-> args.max_retries,
                         pool |-> IF made.exc = "None" THEN next_pool ELSE 0],
                 pool_calls |-> made.calls, slept |-> made.slept,
                 exc |-> made.exc]

CtorInit ==
    /\ instance = NoInstance
    /\ objects = 0
    /\ self_fields = NoSelf
    /\ pools = 0
    /\ ctor_n = 0
    /\ ctor_args = NoArgs
    /\ ctor_reply = "none"
    /\ ctor_out = CtorNone
    /\ returned = {}
    /\ first_ok = NoSelf

\* RedisClient(host=..., port=..., max_retries=...): __new__, then __init__
\* on the object __new__ returned. r is what redis.ConnectionPool(...) does
\* if this construction calls it.
Construct(args, r) ==
    LET fresh == instance = NoInstance
        obj == IF fresh THEN objects + 1 ELSE instance
        before == IF fresh THEN NoSelf ELSE self_fields
        done == RedisClient_init(before, args, r, pools + 1)
    IN /\ ctor_n < MaxCalls + 1
       /\ ctor_n' = ctor_n + 1
       /\ ctor_args' = args
       /\ instance' = obj
       /\ objects' = IF fresh THEN objects + 1 ELSE objects
       /\ self_fields' = done.self
       /\ pools' = pools + done.pool_calls
       /\ ctor_reply' = IF done.pool_calls = 0 THEN "none" ELSE r
       /\ done.pool_calls = 0 => r = "ok"
       /\ ctor_out' = IF done.exc = "None"
                        THEN CtorResult("return", obj, "None", done.pool_calls,
                                        done.slept)
                        ELSE CtorResult("raise", NoInstance, done.exc,
                                        done.pool_calls, done.slept)
       /\ returned' = IF done.exc = "None" THEN returned \cup {obj} ELSE returned
       /\ first_ok' = IF first_ok = NoSelf /\ done.exc = "None"
                        THEN done.self ELSE first_ok
       /\ UNCHANGED <<pipeVars, clearVars, sharedVars, svcVars, keyVars, codecVars,
                      listVars, retryVars, cacheVars, clockVars>>

CtorNext ==
    \E args \in CtorArgs : \E r \in {"ok"} \cup PoolErrors : Construct(args, r)

(* ---------------------------------------------------------------------- *)
(* The expiry of the entries cache_first writes                            *)
(* ---------------------------------------------------------------------- *)
ClockInit ==
    /\ now = 0
    /\ written = [k \in ValidKeys |-> -1]
    /\ looked_at = 0

\* the clock advances in steps of one and of four minutes
TickSteps == {60, 240}
\* what the store still holds at clock t: SETEX key ttl drops the entry
\* once ttl seconds have passed
Unexpired(st, t) == {e \in st : e.exp < 0 \/ t < e.exp}

\* d seconds pass
Tick(d) ==
    /\ now + d <= MaxMinutes * 60
    /\ now' = now + d
    /\ store' = Unexpired(store, now + d)
    /\ store_before' = Unexpired(store_before, now + d)
    /\ UNCHANGED <<cf_pc, cf_req, fetch_plan, looked, get_reply, set_reply,
                   cached, data, fetch_calls, setex_log, cf_out, written,
                   looked_at, retryVars, otherVars>>

\* the calls of MarketDataService, with fetches that return a record, a
\* list of records or None, or raise
TtlRequests == {QuoteRequest, BarsRequest}
TtlFetchPlans(req) ==
    {FetchReturns(PyNone), FetchRaises("AlpacaApiError")}
    \cup (IF req.model = "QuoteModel"
            THEN {FetchReturns(QuoteA)}
            ELSE {FetchReturns(PyList(<<BarA, BarB>>))})

TtlNext ==
    \/ \E req \in TtlRequests : \E fp \in TtlFetchPlans(req) :
          CacheFirstCall(req, fp)
    \/ \E r \in StoreReplies : GetFromCache(r)
    \/ FetchSource
    \/ \E r \in StoreReplies : \E applied \in BOOLEAN : SetCache(r, applied)
    \/ \E d \in TickSteps : Tick(d)

(* ---------------------------------------------------------------------- *)
(* get_key(category, key_type, identifier) of the two redis_schema modules *)
(* ---------------------------------------------------------------------- *)
Packages == {"markettrader", "trader_app"}

\* class KeyPrefix, the categories the callers pass
KeyPrefix ==
    {"settings", "market_data", "portfolio", "trade", "cache", "ai_output",
     "log", "session"}

\* key types and identifiers the tests and callers pass
PrefixKeyTypes == {"ticker", "active", "app"}
Identifiers == {PNone, PStr(<<>>), PStr(AAPL)}

\* the argument lists: (category, key_type) and (category, key_type,
\* identifier)
PrefixArgs ==
    {<<c, t>> : c \in KeyPrefix, t \in PrefixKeyTypes}
    \cup {<<c, t, i>> : c \in KeyPrefix, t \in PrefixKeyTypes, i \in Identifiers}

\* `if identifier:`
Truthy(v) == ~v.none /\ v.s # <<>>

\* def get_key(category, key_type, identifier=None): the function of
\* markettrader's module, and the first of the two trader_app's module defines
get_key_prefix(category, key_type, identifier) ==
    IF Truthy(identifier)
      THEN KeyOk(<<category, ":", key_type, ":">> \o identifier.s)
      ELSE KeyOk(<<category, ":", key_type>>)

\* the function the name get_key is bound to once the module is imported: a
\* later def statement of the same name replaces the earlier one
BoundGetKey ==
    [markettrader |-> "get_key(category, key_type, identifier=None)",
     trader_app |-> "get_key(key_type, params)"]

\* the call <package>.utils.redis_schema.get_key(*args)
call_get_key(pkg, args) ==
    IF BoundGetKey[pkg] = "get_key(category, key_type, identifier=None)"
      THEN get_key_prefix(args[1], args[2],
                          IF Len(args) = 3 THEN args[3] ELSE PNone)
    ELSE IF Len(args) # 2
      THEN KeyErr("TypeError", "takes 2 positional arguments", "get_key")
    ELSE get_key(args[1], <<>>)    \* a str is no RedisKeyType: ValueError

PrefixInit ==
    /\ g_pkg = "markettrader"
    /\ g_args = <<>>
    /\ g_out = KeyNotCalled

CallGetKeyPrefix(pkg, args) ==
    /\ g_pkg' = pkg
    /\ g_args' = args
    /\ g_out' = call_get_key(pkg, args)
    /\ UNCHANGED <<coreVars, pairVars, serviceVars, raceVars>>

PrefixNext ==
    \E pkg \in Packages : \E args \in PrefixArgs : CallGetKeyPrefix(pkg, args)

(* ---------------------------------------------------------------------- *)
(* Pairs of get_key calls                                                 *)
(* ---------------------------------------------------------------------- *)
MSFTUnders == <<"M", "S", "F", "T", "_", "_", "!">>

\* mappings over three of the services' parameter names, each name left out
\* or given one of three values, two of which differ in delimiter characters
\* only; the items are in the order of the names
PairNames == <<"symbol", "timeframe", "user_id">>
PairValues == {PStr(AAPL), PStr(MSFTDelims), PStr(MSFTUnders)}
RECURSIVE PairDictsFrom(_)
PairDictsFrom(i) ==
    IF i > Len(PairNames) THEN {<<>>}
    ELSE LET rest == PairDictsFrom(i + 1)
         IN rest \cup {<<[k |-> PairNames[i], v |-> x]>> \o d :
                          x \in PairValues, d \in rest}
PairDicts == PairDictsFrom(1)
PairCalls == [key_type : RedisKeyType, params : PairDicts]

PairInit ==
    /\ i_a \in PairCalls
    /\ i_b \in PairCalls
    /\ i_key_a = KeyNotCalled
    /\ i_key_b = KeyNotCalled

\* get_key(key_type, params) on each of the two argument lists
CallGetKeyPair ==
    /\ i_key_a = KeyNotCalled
    /\ i_key_a' = get_key(i_a.key_type, i_a.params)
    /\ i_key_b' = get_key(i_b.key_type, i_b.params)
    /\ UNCHANGED <<i_a, i_b, coreVars, prefixVars, serviceVars, raceVars>>

PairNext == CallGetKeyPair

\* no pair of calls under way
PairAtRest ==
    /\ i_a = [key_type |-> "stock_quote", params |-> <<>>]
    /\ i_b = i_a
    /\ i_key_a = KeyNotCalled
    /\ i_key_b = KeyNotCalled

(* ---------------------------------------------------------------------- *)
(* MarketDataService.get_bars_for_symbol and OrderService.get_order_by_id *)
(* ---------------------------------------------------------------------- *)
MSFT == <<"M", "S", "F", "T">>
OneMin == <<"1", "M", "i", "n">>

\* get_bars_for_symbol(symbol, timeframe, start, end, limit)
BarsArgs(symbol, timeframe, start, end, limit) ==
    [symbol |-> symbol, timeframe |-> timeframe, start |-> start,
     end |-> end, limit |-> limit]

\* one request, and five that differ from it in one argument each
BarsCalls ==
    {BarsArgs(AAPL, OneDay, "None", "None", 100),
     BarsArgs(MSFT, OneDay, "None", "None", 100),
     BarsArgs(AAPL, OneMin, "None", "None", 100),
     BarsArgs(AAPL, OneDay, "2024-05-01", "None", 100),
     BarsArgs(AAPL, OneDay, "None", "2024-05-02", 100),
     BarsArgs(AAPL, OneDay, "None", "None", 1)}

OrderIds == {<<"o", "1">>, <<"o", "2">>}

ServiceCall(method, args) == [method |-> method, args |-> args]
NoCall == ServiceCall("None", <<>>)

\* what alpaca_service.get_bars / get_order_by_id does: it returns bars (an
\* order), returns None, or raises
AlpacaReplies(method) ==
    IF method = "get_bars_for_symbol"
      THEN {PyList(<<BarA>>), PyList(<<BarA, BarB>>), PyNone, PyDict}
      ELSE {PyModel("OrderSubmissionResponse", <<>>), PyDict}

\* the members of class RedisKeyType(str, Enum)
RedisKeyTypeMembers ==
    [ACCOUNT_SUMMARY |-> "account_summary", POSITIONS |-> "positions",
     STOCK_BARS |-> "stock_bars", STOCK_QUOTE |-> "stock_quote"]

\* fetch_source of get_bars_for_symbol: a None reply is raised as
\* InvalidSymbolError, any other failure as AlpacaApiError (PyDict stands for
\* a reply get_bars raises on)
fetch_bars(reply) ==
    IF reply = PyNone THEN FetchRaises("InvalidSymbolError")
    ELSE IF reply = PyDict THEN FetchRaises("AlpacaApiError")
    ELSE FetchReturns(reply)

\* fetch_source of get_order_by_id
fetch_order(reply) ==
    IF reply = PyDict THEN FetchRaises("AlpacaApiError")
    ELSE FetchReturns(reply)

\* cache_first(key_type, params, model, fetch_source) run to its end by one
\* caller on the store st: r is the store's reply to the GET, fp what
\* fetch_source does, sr the reply to the SETEX and applied whether the
\* store has run it. The result names the outcome, the store left behind,
\* the entry looked up and whether fetch_source was called.
cache_first(req, st, r, fp, sr, applied) ==
    LET k == get_key(req.key_type, req.params)
        e == IF k.ok THEN StoreGet(st, k.key) ELSE Absent
        g == get_from_cache(req, e, r)
        sc == set_cache(req, fp.val, sr)
        base == [out |-> CfNone, store |-> st, held |-> e, fetched |-> FALSE,
                 wrote |-> FALSE]
    IN IF g.raised THEN [base EXCEPT !.out = CfRaise(g.exc)]
       ELSE IF IsHit(g.val) THEN [base EXCEPT !.out = CfReturn(g.val)]
       ELSE IF fp.raises
         THEN [base EXCEPT !.out = CfRaise(fp.exc), !.fetched = TRUE]
       ELSE IF fp.val = PyNone
         THEN [base EXCEPT !.out = CfReturn(PyNone), !.fetched = TRUE]
       ELSE IF sc.raised
         THEN [base EXCEPT !.out = CfRaise(sc.exc), !.fetched = TRUE]
       ELSE [base EXCEPT
               !.out = CfReturn(fp.val),
               !.fetched = TRUE,
               !.wrote = (applied /\ sc.cmds # <<>>),
               !.store = IF applied /\ sc.cmds # <<>>
                           THEN StorePut(st,
                                    Entry(sc.cmds[1].key, sc.cmds[1].text,
                                          sc.cmds[1].ttl, "cache_first",
                                          fp.val))
                           ELSE st]

\* the replies of the store to one cache_first: a SETEX that was answered
\* was applied, one that timed out may have been
GetAnswers == {"ok", "ConnectionError"}
SetexAnswers == {"ok", "TimeoutError"}
StoreAnswers(r, sr, applied) ==
    /\ r \in GetAnswers
    /\ sr \in SetexAnswers
    /\ sr = "ok" => applied

\* the call whose fetch wrote the entry held under key (NoCall: none)
OriginOf(origin, key) ==
    IF \E o \in origin : o.key = key
      THEN (CHOOSE o \in origin : o.key = key).call
      ELSE NoCall
OriginPut(origin, key, call) ==
    {o \in origin : o.key # key} \cup {[key |-> key, call |-> call]}

ServiceInit ==
    /\ v_store = {}
    /\ v_origin = {}
    /\ v_call = NoCall
    /\ v_reply = PyNone
    /\ v_held = Absent
    /\ v_from = NoCall
    /\ v_fetched = <<>>
    /\ v_out = CfNone
    /\ v_calls = 0

\* the state a service call leaves, cf being what its cache_first did
ServiceCallEnds(call, key, cf) ==
    /\ v_store' = cf.store
    /\ v_origin' = IF cf.wrote THEN OriginPut(v_origin, key, call) ELSE v_origin
    /\ v_held' = cf.held
    /\ v_from' = IF cf.held.present THEN OriginOf(v_origin, key) ELSE NoCall
    /\ v_fetched' = IF cf.fetched THEN <<call.args>> ELSE <<>>
    /\ v_out' = cf.out

\* get_bars_for_symbol(symbol, timeframe, start, end, limit): params holds
\* symbol and timeframe; fetch_source asks Alpaca with all five arguments
GetBarsForSymbol(a, reply, r, sr, applied) ==
    /\ v_calls < MaxCalls
    /\ StoreAnswers(r, sr, applied)
    /\ LET req == [key_type |-> RedisKeyTypeMembers.STOCK_BARS,
                   params |-> <<[k |-> "symbol", v |-> PStr(a.symbol)],
                                [k |-> "timeframe", v |-> PStr(a.timeframe)]>>,
                   model |-> "BarModel"]
           call == ServiceCall("get_bars_for_symbol", a)
       IN ServiceCallEnds(call, get_key(req.key_type, req.params).key,
                          cache_first(req, v_store, r, fetch_bars(reply), sr,
                                      applied))
    /\ v_call' = ServiceCall("get_bars_for_symbol", a)
    /\ v_reply' = reply
    /\ v_calls' = v_calls + 1
    /\ UNCHANGED <<coreVars, prefixVars, pairVars, raceVars>>

\* get_order_by_id(order_id): the arguments of cache_first are evaluated
\* first, and RedisKeyType.ORDER is an attribute the enumeration must have
GetOrderById(order_id, reply, r, sr, applied) ==
    /\ v_calls < MaxCalls
    /\ StoreAnswers(r, sr, applied)
    /\ IF "ORDER" \notin DOMAIN RedisKeyTypeMembers
         THEN /\ v_out' = CfRaise("AttributeError")
              /\ v_held' = Absent
              /\ v_from' = NoCall
              /\ v_fetched' = <<>>
              /\ UNCHANGED <<v_store, v_origin>>
         ELSE LET req == [key_type |-> RedisKeyTypeMembers["ORDER"],
                          params |-> <<[k |-> "order_id",
                                        v |-> PStr(order_id)]>>,
                          model |-> "OrderSubmissionResponse"]
                  call == ServiceCall("get_order_by_id", order_id)
              IN ServiceCallEnds(call, get_key(req.key_type, req.params).key,
                                 cache_first(req, v_store, r,
                                             fetch_order(reply), sr, applied))
    /\ v_call' = ServiceCall("get_order_by_id", order_id)
    /\ v_reply' = reply
    /\ v_calls' = v_calls + 1
    /\ UNCHANGED <<coreVars, prefixVars, pairVars, raceVars>>

ServiceNext ==
    \/ \E a \in BarsCalls :
          \E reply \in AlpacaReplies("get_bars_for_symbol") :
             \E r \in GetAnswers : \E sr \in SetexAnswers :
                \E applied \in BOOLEAN : GetBarsForSymbol(a, reply, r, sr, applied)
    \/ \E id \in OrderIds :
          \E reply \in AlpacaReplies("get_order_by_id") :
             \E r \in GetAnswers : \E sr \in SetexAnswers :
                \E applied \in BOOLEAN : GetOrderById(id, reply, r, sr, applied)

(* ---------------------------------------------------------------------- *)
(* Concurrent callers of cache_first for one key                          *)
(* ---------------------------------------------------------------------- *)
\* the call every caller makes, and the records their fetches may return;
\* the store answers every command
RaceCallers == {"A", "B", "C"}
RaceRequest == QuoteRequest
RaceFetched == {QuoteA, QuoteB}
RaceKey == get_key(RaceRequest.key_type, RaceRequest.params).key

RaceInit ==
    /\ r_store = {}
    /\ r_pc = [c \in RaceCallers |-> "idle"]
    /\ r_fetch = [c \in RaceCallers |-> PyNone]
    /\ r_cached = [c \in RaceCallers |-> PyNone]
    /\ r_data = [c \in RaceCallers |-> PyNone]
    /\ r_fetches = [c \in RaceCallers |-> 0]
    /\ r_out = [c \in RaceCallers |-> CfNone]
    /\ r_writes = <<>>

\* the caller c enters cache_first; v is what its fetch_source will return
RaceEnter(c, v) ==
    /\ r_pc[c] = "idle"
    /\ r_pc' = [r_pc EXCEPT ![c] = "get"]
    /\ r_fetch' = [r_fetch EXCEPT ![c] = v]
    /\ UNCHANGED <<r_store, r_cached, r_data, r_fetches, r_out, r_writes,
                   coreVars, prefixVars, pairVars, serviceVars>>

\* cached = self.get_from_cache(...); if cached is not None: return cached
RaceGet(c) ==
    /\ r_pc[c] = "get"
    /\ LET g == get_from_cache(RaceRequest, StoreGet(r_store, RaceKey), "ok")
       IN /\ r_cached' = [r_cached EXCEPT ![c] = g.val]
          /\ IF IsHit(g.val)
               THEN /\ r_pc' = [r_pc EXCEPT ![c] = "done"]
                    /\ r_out' = [r_out EXCEPT ![c] = CfReturn(g.val)]
               ELSE /\ r_pc' = [r_pc EXCEPT ![c] = "fetch"]
                    /\ r_out' = r_out
    /\ UNCHANGED <<r_store, r_fetch, r_data, r_fetches, r_writes, coreVars,
                   prefixVars, pairVars, serviceVars>>

\* data = fetch_source()
RaceFetch(c) ==
    /\ r_pc[c] = "fetch"
    /\ r_fetches' = [r_fetches EXCEPT ![c] = r_fetches[c] + 1]
    /\ r_data' = [r_data EXCEPT ![c] = r_fetch[c]]
    /\ IF r_fetch[c] # PyNone
         THEN r_pc' = [r_pc EXCEPT ![c] = "set"] /\ r_out' = r_out
         ELSE /\ r_pc' = [r_pc EXCEPT ![c] = "done"]
              /\ r_out' = [r_out EXCEPT ![c] = CfReturn(PyNone)]
    /\ UNCHANGED <<r_store, r_fetch, r_cached, r_writes, coreVars, prefixVars,
                   pairVars, serviceVars>>

\* self.set_cache(key_type, params, data, is_list); return data. The store
\* runs the SETEX as one command.
RaceSet(c) ==
    /\ r_pc[c] = "set"
    /\ LET sc == set_cache(RaceRequest, r_data[c], "ok")
       IN /\ r_store' = IF sc.cmds = <<>> THEN r_store
                        ELSE StorePut(r_store,
                                 Entry(sc.cmds[1].key, sc.cmds[1].text,
                                       sc.cmds[1].ttl, "cache_first",
                                       r_data[c]))
          /\ r_writes' = IF sc.cmds = <<>> THEN r_writes
                         ELSE Append(r_writes, c)
          /\ r_out' = [r_out EXCEPT
                         ![c] = IF sc.raised THEN CfRaise(sc.exc)
                                ELSE CfReturn(r_data[c])]
    /\ r_pc' = [r_pc EXCEPT ![c] = "done"]
    /\ UNCHANGED <<r_fetch, r_cached, r_data, r_fetches, coreVars, prefixVars,
                   pairVars, serviceVars>>

RaceNext ==
    \/ \E c \in RaceCallers : \E v \in RaceFetched : RaceEnter(c, v)
    \/ \E c \in RaceCallers : RaceGet(c)
    \/ \E c \in RaceCallers : RaceFetch(c)
    \/ \E c \in RaceCallers : RaceSet(c)

(* ---------------------------------------------------------------------- *)
(* Specifications                                                          *)
(* ---------------------------------------------------------------------- *)
\* the retry client at rest
RetryAtRest == RetryInit /\ max_retries = MaxRetriesBound

\* no add_to_list_limited and no clear_cache call under way, no thread
\* inside _execute_with_retry, no RedisClient(...) construction made
\* the store of clear_cache with nothing in it and no call made
ClearAtRest ==
    ClearInit /\ db = [k \in DbKeys |-> DbAbsent]

\* no call of the later sections under way
SvcAtRest == PrefixInit /\ PairAtRest /\ ServiceInit /\ RaceInit

LaterAtRest ==
    PipeInit /\ ClearAtRest /\ SharedInit /\ CtorInit /\ SvcAtRest

\* cache_first calls on an empty store, the clock standing still
InitCache ==
    RetryAtRest /\ CacheInit /\ ClockInit /\ KeyAtRest /\ CodecAtRest /\ ListInit
    /\ LaterAtRest

SpecCache == InitCache /\ [][CacheNext]_vars

\* _execute_with_retry invocations on a client just constructed
InitRetry ==
    RetryInit /\ CacheInit /\ ClockInit /\ KeyAtRest /\ CodecAtRest /\ ListInit
    /\ LaterAtRest

SpecRetry == InitRetry /\ [][RetryNext]_vars

\* cache_first calls on an empty store while time passes
InitTtl ==
    RetryAtRest /\ CacheInit /\ ClockInit /\ KeyAtRest /\ CodecAtRest /\ ListInit
    /\ LaterAtRest

SpecTtl == InitTtl /\ [][TtlNext]_vars

\* get_key and get_ttl_for_key on every argument of the bounded sets
InitKey ==
    RetryAtRest /\ CacheInit /\ ClockInit /\ KeyInit /\ CodecAtRest /\ ListInit
    /\ LaterAtRest

SpecKey == InitKey /\ [][KeyNext]_vars

\* serialize_model, then deserialize_model, on every argument of the
\* bounded sets
InitCodec ==
    RetryAtRest /\ CacheInit /\ ClockInit /\ KeyAtRest /\ CodecInit /\ ListInit
    /\ LaterAtRest

SpecCodec == InitCodec /\ [][CodecNext]_vars

\* add_to_list_limited calls on a list that starts empty
InitList ==
    RetryAtRest /\ CacheInit /\ ClockInit /\ KeyAtRest /\ CodecAtRest /\ ListInit
    /\ LaterAtRest

SpecList == InitList /\ [][ListNext]_vars

\* concurrent add_to_list_limited calls and readers on a list that starts
\* empty
InitPipe ==
    RetryAtRest /\ CacheInit /\ ClockInit /\ KeyAtRest /\ CodecAtRest /\ ListInit
    /\ PipeInit /\ ClearAtRest /\ SharedInit /\ CtorInit /\ SvcAtRest

SpecPipe == InitPipe /\ [][PipeNext]_vars

\* clear_cache calls on every store of the bounded key space
InitClear ==
    RetryAtRest /\ CacheInit /\ ClockInit /\ KeyAtRest /\ CodecAtRest /\ ListInit
    /\ PipeInit /\ ClearInit /\ SharedInit /\ CtorInit /\ SvcAtRest

SpecClear == InitClear /\ [][ClearNext]_vars

\* concurrent _execute_with_retry invocations on a client just constructed
InitShared ==
    RetryAtRest /\ CacheInit /\ ClockInit /\ KeyAtRest /\ CodecAtRest /\ ListInit
    /\ PipeInit /\ ClearAtRest /\ SharedInit /\ CtorInit /\ SvcAtRest

SpecShared == InitShared /\ [][SharedNext]_vars

\* constructions RedisClient(...) in a process that has made none
InitCtor ==
    RetryAtRest /\ CacheInit /\ ClockInit /\ KeyAtRest /\ CodecAtRest /\ ListInit
    /\ PipeInit /\ ClearAtRest /\ SharedInit /\ CtorInit /\ SvcAtRest

SpecCtor == InitCtor /\ [][CtorNext]_vars

\* calls of get_key(category, key_type[, identifier]) in both packages
InitPrefix ==
    RetryAtRest /\ CacheInit /\ ClockInit /\ KeyAtRest /\ CodecAtRest /\ ListInit
    /\ PipeInit /\ ClearAtRest /\ SharedInit /\ CtorInit /\ PrefixInit
    /\ PairAtRest /\ ServiceInit /\ RaceInit

SpecPrefix == InitPrefix /\ [][PrefixNext]_vars

\* get_key on every pair of argument lists of the bounded sets
InitPair ==
    RetryAtRest /\ CacheInit /\ ClockInit /\ KeyAtRest /\ CodecAtRest /\ ListInit
    /\ PipeInit /\ ClearAtRest /\ SharedInit /\ CtorInit /\ PrefixInit
    /\ PairInit /\ ServiceInit /\ RaceInit

SpecPair == InitPair /\ [][PairNext]_vars

\* calls of the two services, one after another, on an empty store
InitService ==
    RetryAtRest /\ CacheInit /\ ClockInit /\ KeyAtRest /\ CodecAtRest /\ ListInit
    /\ PipeInit /\ ClearAtRest /\ SharedInit /\ CtorInit /\ PrefixInit
    /\ PairAtRest /\ ServiceInit /\ RaceInit

SpecService == InitService /\ [][ServiceNext]_vars

\* concurrent cache_first calls for one key on a store that holds no entry
InitRace ==
    RetryAtRest /\ CacheInit /\ ClockInit /\ KeyAtRest /\ CodecAtRest /\ ListInit
    /\ PipeInit /\ ClearAtRest /\ SharedInit /\ CtorInit /\ PrefixInit
    /\ PairAtRest /\ ServiceInit /\ RaceInit

SpecRace == InitRace /\ [][RaceNext]_vars

(* ---------------------------------------------------------------------- *)
(* Claims about _execute_with_retry                                        *)
(* ---------------------------------------------------------------------- *)
\* the first k planned replies are transient errors
LeadingTransient(k) == \A i \in 1..k : plan[i] \in TransientErrors

\* C1: with max_retries = m, when the store raises a transient error on each
\* of the first k attempts (0 <= k <= m) and succeeds on the next one, the
\* invocation returns the operation's result after exactly k+1 attempts.
C1_RetryThenSuccess ==
    \A k \in 0..max_retries :
        (pc = "done" /\ LeadingTransient(k) /\ plan[k + 1] = "ok")
            => (outcome = Returned /\ attempts = k + 1)

\* two connection failures, then success, max_retries = 2: three attempts
C1_Witness ==
    /\ pc = "done" /\ max_retries = 2
    /\ LeadingTransient(2) /\ plan[3] = "ok"
    /\ outcome = Returned /\ attempts = 3

C3_NonTransientNotRetried ==
    \A j \in 1..(max_retries + 1) :
        (pc \in {"sleep", "done"} /\ attempts >= j /\ LeadingTransient(j - 1)
            /\ plan[j] \in NonTransientErrors)
            => /\ pc = "done"
               /\ attempts = j
               /\ sleeps = j - 1
               /\ outcome = Raised(Exc(plan[j], j))

\* a non-transient error on the third attempt, after two transient retries
C3_Witness ==
    /\ pc = "done" /\ max_retries = 2
    /\ LeadingTransient(2) /\ plan[3] \in NonTransientErrors
    /\ attempts = 3 /\ sleeps = 2
    /\ outcome = Raised(Exc("RedisError", 3))

(* ---------------------------------------------------------------------- *)
(* Claims about cache_first                                                *)
(* ---------------------------------------------------------------------- *)
\* the current call is past its lookup
AfterLookup == cf_pc \in {"fetch", "set", "done"}
\* at the lookup the store held an entry under the key that decodes
HeldDecodable ==
    looked.present /\ deserialize_model(cf_req.model, looked.text).ok
\* the lookup failed: the GET raised, or the payload read does not decode
LookupFailed ==
    \/ get_reply \in StoreReplies \ {"ok"}
    \/ /\ get_reply = "ok" /\ looked.present
       /\ ~deserialize_model(cf_req.model, looked.text).ok
\* fetch_source was invoked and returned a value that is not None
FetchedNonNull ==
    fetch_calls >= 1 /\ ~fetch_plan.raises /\ fetch_plan.val # PyNone
\* the one SETEX set_cache issues for the fetched value
ExpectedSetex ==
    [key |-> get_key(cf_req.key_type, cf_req.params).key,
     ttl |-> KEY_TTLS[cf_req.key_type],
     text |-> serialize_model(fetch_plan.val).text]

\* C4 (as stated): when the store holds a valid, decodable entry under the
\* derived key, cache_first returns the decoded entry, never invokes the
\* fetch function and mutates nothing in the store.
C4_HitWheneverHeld ==
    (AfterLookup /\ HeldDecodable)
        => /\ cf_pc = "done"
           /\ cf_out = CfReturn(deserialize_model(cf_req.model, looked.text).v)
           /\ fetch_calls = 0
           /\ setex_log = <<>>
           /\ store = store_before

\* C4 (amended): when the store holds a valid, decodable entry under the
\* derived key and the lookup GET succeeds, cache_first returns the decoded
\* entry, never invokes the fetch function and mutates nothing in the store.
C4_HitWhenReadSucceeds ==
    (AfterLookup /\ HeldDecodable /\ get_reply = "ok")
        => /\ cf_pc = "done"
           /\ cf_out = CfReturn(deserialize_model(cf_req.model, looked.text).v)
           /\ fetch_calls = 0
           /\ setex_log = <<>>
           /\ store = store_before

\* a hit on a stored quote
C4_Witness ==
    /\ cf_pc = "done" /\ cf_req = QuoteRequest /\ get_reply = "ok"
    /\ looked.present /\ looked.text = serialize_model(QuoteA).text
    /\ cf_out = CfReturn(QuoteA) /\ fetch_calls = 0

\* C5 (as stated): on a genuine miss with a fetch that returns a non-null
\* result, the call invokes the fetch function exactly once and then issues
\* exactly one write, of the encoded result, under the derived key, with
\* expiry get_ttl(resource_type).
C5_MissWritesOnce ==
    (cf_pc \in {"set", "done"} /\ ~looked.present /\ FetchedNonNull)
        => /\ fetch_calls = 1
           /\ cf_pc = "set" => setex_log = <<>>
           /\ cf_pc = "done" => setex_log = <<ExpectedSetex>>

\* C5 (amended): on a genuine miss with a fetch that returns a non-null
\* result that encode accepts (a record or a list of records), the call
\* invokes the fetch function exactly once and then issues exactly one
\* write, of the encoded result, under the derived key, with expiry
\* get_ttl(resource_type).
C5_MissWritesOnceWhenEncodable ==
    (cf_pc \in {"set", "done"} /\ ~looked.present /\ FetchedNonNull
        /\ serialize_model(fetch_plan.val).ok)
        => /\ fetch_calls = 1
           /\ cf_pc = "set" => setex_log = <<>>
           /\ cf_pc = "done" => setex_log = <<ExpectedSetex>>

\* a miss for a quote: one fetch, one SETEX with the 60 s of stock_quote
C5_Witness ==
    /\ cf_pc = "done" /\ cf_req = QuoteRequest /\ ~looked.present
    /\ fetch_plan = FetchReturns(QuoteA) /\ fetch_calls = 1
    /\ Len(setex_log) = 1 /\ setex_log[1].ttl = 60
    /\ setex_log[1].text = serialize_model(QuoteA).text
    /\ set_reply = "ok"

\* C6: a failure of the cache lookup (the GET raises, or the stored payload
\* cannot be decoded) is never raised to the caller: it is treated as a
\* miss, the fetch function is invoked, and the call ends as the fetch does.
C6_LookupFailureIsMiss ==
    (AfterLookup /\ LookupFailed)
        => /\ cf_pc = "fetch" => (cf_out = CfNone /\ fetch_calls = 0)
           /\ cf_pc \in {"set", "done"} => fetch_calls = 1
           /\ cf_pc = "done" =>
                 cf_out = IF fetch_plan.raises
                            THEN CfRaise(fetch_plan.exc)
                            ELSE CfReturn(fetch_plan.val)

\* the GET is refused while the store holds a decodable quote
C6_Witness ==
    /\ cf_pc = "done" /\ get_reply = "ConnectionError"
    /\ HeldDecodable
    /\ fetch_calls = 1 /\ cf_out = CfReturn(QuoteB)

\* C7: if, after a fetch that returned a non-null result, encoding the
\* result or writing it to the store fails, cache_first raises nothing and
\* returns the fetched result.
C7_WriteFailureSwallowed ==
    (cf_pc = "done" /\ FetchedNonNull
        /\ (~serialize_model(fetch_plan.val).ok
              \/ set_reply \in StoreReplies \ {"ok"}))
        => cf_out = CfReturn(fetch_plan.val)

\* the SETEX is refused
C7_Witness ==
    /\ cf_pc = "done" /\ fetch_plan = FetchReturns(PyList(<<BarA, BarB>>))
    /\ set_reply = "ConnectionError" /\ Len(setex_log) = 1
    /\ cf_out = CfReturn(PyList(<<BarA, BarB>>))

\* C8: if the fetch function raises on a miss, cache_first ends with that
\* same exception, has invoked the fetch function once only, and has
\* written nothing to the store.
C8_FetchErrorPropagates ==
    (cf_pc = "done" /\ fetch_calls >= 1 /\ fetch_plan.raises)
        => /\ cf_out = CfRaise(fetch_plan.exc)
           /\ fetch_calls = 1
           /\ setex_log = <<>>
           /\ set_reply = "none"
           /\ store = store_before

C8_Witness ==
    /\ cf_pc = "done" /\ fetch_plan = FetchRaises("AlpacaApiError")
    /\ fetch_calls = 1 /\ cf_out = CfRaise("AlpacaApiError")

\* C9: if the fetch function returns None on a miss, cache_first returns
\* None and issues no write: the store is as it would be without the call.
C9_NullFetchWritesNothing ==
    (cf_pc = "done" /\ fetch_calls >= 1 /\ ~fetch_plan.raises
        /\ fetch_plan.val = PyNone)
        => /\ cf_out = CfReturn(PyNone)
           /\ setex_log = <<>>
           /\ set_reply = "none"
           /\ store = store_before

C9_Witness ==
    /\ cf_pc = "done" /\ fetch_plan = FetchReturns(PyNone)
    /\ fetch_calls = 1 /\ cf_out = CfReturn(PyNone) /\ store # {}

\* C10 (as stated): after a call that missed, fetched a non-null result and
\* wrote it, every later call for the same key made while the store still
\* holds that entry returns a value equal to the fetched result without
\* invoking the fetch function.
C10_LaterCallsHit ==
    (AfterLookup /\ looked.present /\ looked.by = "cache_first")
        => /\ cf_pc = "done"
           /\ cf_out = CfReturn(looked.origin)
           /\ fetch_calls = 0

\* C10 (amended): after a call that missed, fetched a non-null result and
\* wrote it, every later call for the same key made while the store still
\* holds that entry, and whose lookup GET succeeds, returns a value equal to
\* the fetched result without invoking the fetch function.
C10_LaterCallsHitWhenReadSucceeds ==
    (AfterLookup /\ looked.present /\ looked.by = "cache_first"
        /\ get_reply = "ok")
        => /\ cf_pc = "done"
           /\ cf_out = CfReturn(looked.origin)
           /\ fetch_calls = 0

\* a later call for the bars written by an earlier one
C10_Witness ==
    /\ cf_pc = "done" /\ cf_req = BarsRequest /\ get_reply = "ok"
    /\ looked.present /\ looked.by = "cache_first"
    /\ looked.origin = PyList(<<BarA, BarB>>)
    /\ cf_out = CfReturn(PyList(<<BarA, BarB>>)) /\ fetch_calls = 0

(* ---------------------------------------------------------------------- *)
(* Claims about the expiry of cached entries                               *)
(* ---------------------------------------------------------------------- *)
\* the key the current cache_first call derives
CurrentKey == get_key(cf_req.key_type, cf_req.params).key
\* the current call ended as a hit: it returned without fetching
EndedAsHit == cf_pc = "done" /\ cf_out.kind = "return" /\ fetch_calls = 0

\* C11: an entry written by cache_first is returned by a lookup only while
\* less than get_ttl(resource_type) seconds have passed since it was
\* written; a cache_first whose lookup is made once that time has passed
\* since the last write under the key is a miss and invokes the fetch
\* function again.
C11_ExpiresAfterTtl ==
    /\ EndedAsHit =>
          /\ looked.present /\ looked.by = "cache_first"
          /\ looked_at - looked.at < KEY_TTLS[cf_req.key_type]
    /\ (AfterLookup /\ written[CurrentKey] >= 0
           /\ looked_at - written[CurrentKey] >= KEY_TTLS[cf_req.key_type])
          => /\ ~looked.present
             /\ ~EndedAsHit
             /\ fetch_calls = IF cf_pc = "fetch" THEN 0 ELSE 1

\* a quote written at 0 is looked up 60 s later: a miss, fetched again
C11_Witness ==
    /\ cf_pc = "set" /\ cf_req = QuoteRequest
    /\ written[CurrentKey] = 0 /\ looked_at = 60 /\ get_reply = "ok"
    /\ ~looked.present /\ fetch_calls = 1

(* ---------------------------------------------------------------------- *)
(* Claims about get_key and get_ttl_for_key                                *)
(* ---------------------------------------------------------------------- *)
\* get_key has been called on the arguments
KeyCalled == k_pc \in {"key", "ttl"}

\* the mapping k_params has no entry named r, or one whose value is None
AbsentOrNull(r) ==
    \/ \A i \in 1..Len(k_params) : k_params[i].k # r
    \/ \E i \in 1..Len(k_params) : k_params[i].k = r /\ k_params[i].v = PNone

\* C12: for every resource type and every complete, valid parameter
\* mapping, get_key returns the same key for all insertion orders of the
\* mapping's entries.
C12_KeyOrderInvariant ==
    (KeyCalled /\ k_key.ok) => (k_key_perm.ok /\ k_key_perm.key = k_key.key)

\* {"timeframe": "1Day", "symbol": "AAPL"} and {"symbol": ..., "timeframe": ...}
C12_Witness ==
    /\ KeyCalled /\ k_type = "stock_bars"
    /\ k_params = <<[k |-> "timeframe", v |-> PStr(OneDay)],
                    [k |-> "symbol", v |-> PStr(AAPL)]>>
    /\ k_perm = <<[k |-> "symbol", v |-> PStr(AAPL)],
                  [k |-> "timeframe", v |-> PStr(OneDay)]>>
    /\ k_key.ok /\ k_key_perm.key = k_key.key

\* C13: get_key raises the error for a missing parameter (ValueError
\* "Missing required param '<name>'", the spec's MissingParameterError),
\* naming a missing field, and returns no key, whenever a parameter required
\* by the resource type is absent from the mapping or present with a null
\* value.
C13_MissingParamRaises ==
    (KeyCalled /\ k_type \in RedisKeyType
        /\ \E i \in 1..Len(required[k_type]) : AbsentOrNull(required[k_type][i]))
        => /\ ~k_key.ok
           /\ k_key.key = <<>>
           /\ k_key.err = "ValueError"
           /\ k_key.msg = "Missing required param"
           /\ \E i \in 1..Len(required[k_type]) :
                 /\ k_key.name = required[k_type][i]
                 /\ AbsentOrNull(required[k_type][i])

\* stock_bars with symbol given and timeframe None
C13_Witness ==
    /\ KeyCalled /\ k_type = "stock_bars"
    /\ k_params = <<[k |-> "symbol", v |-> PStr(AAPL)],
                    [k |-> "timeframe", v |-> PNone]>>
    /\ ~k_key.ok /\ k_key.name = "timeframe"

\* C14: get_ttl_for_key is total on the closed enumeration of resource
\* types with fixed values (300 s for account summary, positions and stock
\* bars, 60 s for stock quote), and both get_key and get_ttl_for_key raise
\* the error for an unknown type (ValueError, the spec's
\* UnknownResourceTypeError) for any resource type outside the enumeration.
C14_TtlTotalUnknownTypeRaises ==
    k_pc = "ttl" =>
        /\ k_type \in {"account_summary", "positions", "stock_bars"}
              => k_ttl = [ok |-> TRUE, ttl |-> 300, err |-> "None"]
        /\ k_type = "stock_quote"
              => k_ttl = [ok |-> TRUE, ttl |-> 60, err |-> "None"]
        /\ k_type \notin {"account_summary", "positions", "stock_bars",
                           "stock_quote"}
              => /\ ~k_ttl.ok /\ k_ttl.err = "ValueError"
                 /\ ~k_key.ok /\ k_key.err = "ValueError"
                 /\ k_key.msg = "Invalid key_type"

\* "not_a_key_type": both calls raise
C14_Witness ==
    /\ k_pc = "ttl" /\ k_type = "not_a_key_type"
    /\ k_params = <<[k |-> "user_id", v |-> PStr(AAPL)]>>
    /\ ~k_ttl.ok /\ ~k_key.ok

\* the parameter names in lexicographic order
LexOrder == <<"limit", "symbol", "timeframe", "user_id">>

\* 'cache:<resource_type>' followed by one ':<name>=<value>' segment per
\* entry of k_params, in lexicographic order of the names, ':' and '|'
\* inside a value replaced by '_'
KeyAsSpecified ==
    LET Has(n) == \E i \in 1..Len(k_params) : k_params[i].k = n
        names == SelectSeq(LexOrder, Has)
        ValueOf(n) ==
            k_params[CHOOSE i \in 1..Len(k_params) : k_params[i].k = n].v
        Text(v) == IF v = PNone THEN <<"N", "o", "n", "e">> ELSE v.s
        Clean(t) ==
            [i \in 1..Len(t) |->
                IF t[i] = ":" \/ t[i] = "|" THEN "_" ELSE t[i]]
        Upto[i \in 0..Len(names)] ==
            IF i = 0 THEN <<"cache", ":", k_type>>
            ELSE Upto[i - 1] \o <<":", names[i], "=">>
                             \o Clean(Text(ValueOf(names[i])))
    IN Upto[Len(names)]

\* C15: get_key returns 'cache:<resource_type>' followed by one
\* ':<name>=<value>' segment per parameter, in lexicographic order of the
\* parameter names, with every ':' and '|' inside a value replaced by '_';
\* get_key(StockBars, {symbol: AAPL, timeframe: 1Day}) is
\* 'cache:stock_bars:symbol=AAPL:timeframe=1Day'.
C15_KeyFormat ==
    /\ (KeyCalled /\ k_key.ok) => k_key.key = KeyAsSpecified
    /\ (KeyCalled /\ k_type = "stock_bars"
           /\ k_params = <<[k |-> "symbol", v |-> PStr(AAPL)],
                           [k |-> "timeframe", v |-> PStr(OneDay)]>>)
          => k_key.key = <<"cache", ":", "stock_bars",
                           ":", "symbol", "=", "A", "A", "P", "L",
                           ":", "timeframe", "=", "1", "D", "a", "y">>

\* get_key(STOCK_QUOTE, {"symbol": "MSFT:|!"}) is
\* "cache:stock_quote:symbol=MSFT__!"
C15_Witness ==
    /\ KeyCalled /\ k_type = "stock_quote"
    /\ k_params = <<[k |-> "symbol", v |-> PStr(MSFTDelims)]>>
    /\ k_key.key = <<"cache", ":", "stock_quote", ":", "symbol", "=",
                     "M", "S", "F", "T", "_", "_", "!">>

(* ---------------------------------------------------------------------- *)
(* Claims about serialize_model and deserialize_model                      *)
(* ---------------------------------------------------------------------- *)
\* serialize_model has been called on c_in
Encoded == c_pc \in {"encoded", "decoded"}
\* c_in is a single record, or a list whose elements are all records
IsRecord(x) == x.t = "model"
IsRecordList(x) ==
    x.t = "list" /\ \A i \in 1..Len(x.items) : x.items[i].t = "model"
\* the records of c_in, and the JSON objects of the payload, in order
RecordsIn(x) == IF x.t = "model" THEN <<x>> ELSE x.items

C17_DecimalAsCanonicalString ==
    /\ (Encoded /\ c_enc.ok) =>
          \A i \in 1..Len(RecordsIn(c_in)) :
            LET m == RecordsIn(c_in)[i]
            IN \A name \in FieldNames(m.cls) :
                 FieldKind(m.cls, name) = "Decimal" =>
                   /\ c_enc.text.objs[i][name].j = "str"
                   /\ ParseDecimal(c_enc.text.objs[i][name].s)
                        = ParseOk(m.f[name])
    /\ (Encoded /\ IsRecord(c_in) /\ c_in.cls = "QuoteModel"
           /\ c_in.f.bid_price = Dec(0, <<"1", "5", "0", "1", "0">>, -2))
          => /\ c_enc.text.objs[1].bid_price
                  = JStr(<<"1", "5", "0", ".", "1", "0">>)
             /\ c_pc = "decoded" =>
                   c_dec.v.f.bid_price = Dec(0, <<"1", "5", "0", "1", "0">>, -2)

\* the quote of test_serialize_decimal_and_datetime
C17_Witness ==
    /\ c_pc = "decoded" /\ c_in = QuoteA
    /\ c_enc.text.objs[1].bid_price = JStr(<<"1", "5", "0", ".", "1", "0">>)
    /\ c_dec.v.f.bid_price = Dec(0, <<"1", "5", "0", "1", "0">>, -2)

\* C18: encode writes every timestamp field of every record as an ISO-8601
\* string that carries an explicit UTC offset.
C18_TimestampsCarryUtcOffset ==
    (Encoded /\ c_enc.ok) =>
        \A i \in 1..Len(RecordsIn(c_in)) :
          LET m == RecordsIn(c_in)[i]
          IN \A name \in FieldNames(m.cls) :
               FieldKind(m.cls, name) = "datetime" =>
                 LET jv == c_enc.text.objs[i][name]
                 IN /\ jv.j = "str"
                    /\ Len(jv.s) >= 2
                    /\ jv.s[1] \in WallTokens
                    /\ jv.s[Len(jv.s)] \in OffsetTokens

\* C19: encode raises the error for an unsupported type (TypeError, the
\* spec's UnsupportedTypeError), and produces no payload, for every input
\* that is neither a single record nor a list whose elements are all
\* records, a list that holds a non-record element included.
C19_UnsupportedInputRaisesTypeError ==
    (Encoded /\ ~IsRecord(c_in) /\ ~IsRecordList(c_in))
        => c_enc = SerErr("TypeError")

(* ---------------------------------------------------------------------- *)
(* Claims about add_to_list_limited                                        *)
(* ---------------------------------------------------------------------- *)
\* C20: after any sequence of add_to_list_limited(key, value, max_items)
\* calls, for every non-negative max_items, the list under key holds at
\* most max_items entries once a call has returned, and whenever it is not
\* empty its first entry is the value that call added.
C20_ListBoundedNewestFirst ==
    ll_out.kind = "return" =>
        /\ Len(lst) <= ll_args.max_items
        /\ lst # <<>> => lst[1] = ll_args.value

(* ---------------------------------------------------------------------- *)
(* Claims about add_to_list_limited under concurrency                      *)
(* ---------------------------------------------------------------------- *)
\* the call of c has ended by raising
TxRaised(c) == tx_pc[c] = "done" /\ tx_out[c].kind = "raise"
\* the store has run neither the push nor the trim of the call of c and
\* holds none of its commands
TxNotApplied(c) == tx_done[c] = 0 /\ tx_queue[c] = <<>>

\* C21 (as stated): no reader ever gets the list with a value pushed and not
\* yet trimmed, and whenever an add_to_list_limited call has raised the store
\* has applied neither its push nor its trim.
C21_AtomicAndNothingAppliedOnFailure ==
    /\ ~seen_mid
    /\ \A c \in Callers : TxRaised(c) => TxNotApplied(c)

\* C21 (amended): no reader ever gets the list with a value pushed and not
\* yet trimmed, the store has run both commands of a call or neither, and
\* whenever a call has raised before execute() sent its commands the store
\* has applied neither its push nor its trim.
C21_AtomicAndNothingAppliedUnlessSent ==
    /\ ~seen_mid
    /\ \A c \in Callers : tx_done[c] \in {0, 2}
    /\ \A c \in Callers : (TxRaised(c) /\ ~tx_sent[c]) => TxNotApplied(c)

\* a reader has read the list while one caller's commands were held by the
\* store, that call has returned, and the other caller's call has raised
\* before anything was sent
C21_Witness ==
    /\ seen # <<>>
    /\ \E c \in Callers : \E d \in Callers :
          /\ c # d
          /\ tx_pc[c] = "done" /\ tx_out[c].kind = "return" /\ tx_done[c] = 2
          /\ TxRaised(d) /\ ~tx_sent[d]
          /\ lst = <<tx_args[c].value>>
          /\ seen = lst

(* ---------------------------------------------------------------------- *)
(* Claims about clear_cache                                                *)
(* ---------------------------------------------------------------------- *)
\* the keys matching the pattern when the current call started
MatchingAtStart == DbKeysMatching(db_before, cc_pattern)
ClearReturned == cc_pc = "done" /\ cc_out.kind = "return"

\* C22: a clear_cache(pattern) call that has returned has deleted exactly
\* the keys that matched pattern, has left every other key with its value,
\* and has returned the number of keys deleted; when no key matched it has
\* returned 0 and issued no DEL.
C22_DeletesMatchingReturnsCount ==
    ClearReturned =>
        /\ \A k \in DbKeys :
              db[k] = IF k \in MatchingAtStart THEN DbAbsent ELSE db_before[k]
        /\ cc_deleted = MatchingAtStart
        /\ cc_out.n = Cardinality(cc_deleted)
        /\ MatchingAtStart = {} => (cc_out.n = 0 /\ cc_dels = 0)

\* C23: when the last command of a finished clear_cache call was answered
\* with an error, the call has raised that error; and when that command was
\* the enumeration, no DEL was issued and the store is as it was.
C23_ErrorsPropagate ==
    (cc_pc = "done" /\ cc_last.reply \notin {"ok", "none"}) =>
        /\ cc_out = LlRaise(cc_last.reply)
        /\ cc_last.cmd = "KEYS" => (cc_dels = 0 /\ cc_deleted = {} /\ db = db_before)

\* the enumeration of a pattern that matches stored keys has failed after
\* its retries and the call has raised
C23_Witness ==
    /\ cc_pc = "done"
    /\ cc_last = CcCmd("KEYS", "TimeoutError")
    /\ cc_retry = max_retries
    /\ MatchingAtStart # {}
    /\ cc_out = LlRaise("TimeoutError")

(* ---------------------------------------------------------------------- *)
(* Claims about the backoff and the handle of _execute_with_retry          *)
(* ---------------------------------------------------------------------- *)
\* min(max_backoff, backoff_factor * 2^attempt), in milliseconds
SpecifiedBackoff(attempt) ==
    LET raw == BackoffFactorMs * (2 ^ attempt)
    IN IF MaxBackoffMs < raw THEN MaxBackoffMs ELSE raw

\* C24: the delay slept before the k-th retry of an invocation is within 10%
\* of min(max_backoff, backoff_factor * 2^(k-1)), k - 1 being the attempt
\* count before the failed attempt is counted: 0.5 s, 1 s, 2 s, ... for the
\* successive retries.
C24_BackoffFromAttemptZero ==
    sleeps >= 1 =>
        LET base == SpecifiedBackoff(sleeps - 1)
        IN /\ 10 * wait_time >= 9 * base
           /\ 10 * wait_time <= 11 * base

\* C25: whenever an invocation is at its backoff sleep, self._client is
\* None; and every attempt that follows a failed attempt of the same
\* invocation runs on a handle created after that failure (or obtains none,
\* its ping failing), never on a handle an earlier attempt ran on.
C25_HandleDiscardedBeforeSleep ==
    /\ pc = "sleep" => client = NoClient
    /\ \A i \in 1..Len(used) : \A j \in 1..Len(used) :
          (j < i /\ used[i] # NoClient) => used[i] > used[j]

\* an invocation whose first attempt failed on one handle has succeeded at
\* its second attempt on another
C25_Witness ==
    /\ pc = "done"
    /\ outcome = Returned
    /\ sleeps = 1
    /\ Len(used) = 2
    /\ used[1] # NoClient
    /\ used[2] \notin {NoClient, used[1]}

\* the current invocation has ended by raising a transient error: its
\* retries are exhausted
RetriesExhausted ==
    pc = "done" /\ outcome.kind = "raise" /\ outcome.exc.cls \in TransientErrors

\* C26: once an invocation has ended with its retries exhausted,
\* self._client is None; every invocation starts with retry_count 0 and no
\* sleep made; and an invocation whose first attempt the store lets through
\* returns.
C26_NoHandleAfterExhaustion ==
    /\ RetriesExhausted => client = NoClient
    /\ (pc = "loop" /\ attempts = 0) => (retry_count = 0 /\ sleeps = 0)
    /\ (pc = "done" /\ calls >= 1 /\ plan[1] = "ok") => outcome = Returned

(* ---------------------------------------------------------------------- *)
(* Claims about concurrent callers of _execute_with_retry                  *)
(* ---------------------------------------------------------------------- *)
\* C27 (the part a finite run refutes): an invocation makes at most
\* max_retries + 1 attempts and max_retries sleeps, and it ends with the
\* operation's result or with a classified store error (a transient error
\* after the retries, or another RedisError); no other exception escapes.
C27_BoundedAndClassified ==
    \A t \in Threads :
        /\ t_attempts[t] <= max_retries + 1
        /\ t_sleeps[t] <= max_retries
        /\ t_pc[t] = "done" =>
              \/ t_out[t] = TReturned
              \/ /\ t_out[t].kind = "raise"
                 /\ t_out[t].cls \in TransientErrors \cup NonTransientErrors

\* C28: a handle is created only while self._client is None, at most one
\* handle is created between two resets of self._client, and the operations
\* run between two resets all use the same handle.
C28_OneHandlePerPeriod ==
    /\ ~s_overwrote
    /\ s_period <= 1
    /\ ~s_mixed

(* ---------------------------------------------------------------------- *)
(* Claims about the construction of RedisClient                            *)
(* ---------------------------------------------------------------------- *)
\* C29: all the constructions of a process return the same object, and the
\* fields of the instance (host, port, max_retries, the pool) stay what
\* they were when the first successful construction returned, whatever
\* arguments the later constructions pass.
C29_SingletonInitOnce ==
    /\ Cardinality(returned) <= 1
    /\ first_ok # NoSelf => self_fields = first_ok

\* a construction with arguments of its own has returned after the first
\* successful one, which took host and port from the configuration
C29_Witness ==
    /\ ctor_n >= 2
    /\ first_ok # NoSelf
    /\ ctor_reply = "none"
    /\ ctor_out.kind = "return"
    /\ ctor_args = [host |-> "badhost", port |-> "9999", max_retries |-> 0]
    /\ self_fields.host = ConfigHost
    /\ self_fields.port = ConfigPort
    /\ self_fields.max_retries = MaxRetriesBound

\* C30: a construction whose redis.ConnectionPool(...) call raises has
\* raised that exception after that single call, without a sleep, whatever
\* max_retries it was given.
C30_PoolFailureNotRetried ==
    ctor_reply \in PoolErrors =>
        /\ ctor_out.kind = "raise"
        /\ ctor_out.exc = ctor_reply
        /\ ctor_out.pool_calls = 1
        /\ ctor_out.slept = 0

\* a construction given max_retries > 0 has failed at the pool
C30_Witness ==
    /\ ctor_reply \in PoolErrors
    /\ ctor_out.kind = "raise"
    /\ ctor_args.max_retries = MaxRetriesBound
    /\ ctor_args.host = "badhost"
    /\ ~self_fields.initialized

(* ---------------------------------------------------------------------- *)
(* Claims about the store operations of cache_first                       *)
(* ---------------------------------------------------------------------- *)
\* the GET commands the current call has issued: get_from_cache calls
\* get_client().get(key) once, and get_client() hands out the bare handle
LookupGets == IF get_reply = "none" THEN 0 ELSE 1

\* C31: every store operation of cache_first goes through retry-with-backoff:
\* a lookup gives up on a transient error only after max_retries + 1 GETs (so
\* a transient error followed by a successful retry yields the cached value,
\* not a miss), and a write gives up on one only after max_retries + 1 SETEXs.
C31_StoreOperationsRetried ==
    /\ (AfterLookup /\ get_reply \in TransientErrors)
           => LookupGets = max_retries + 1
    /\ (cf_pc = "done" /\ set_reply \in TransientErrors)
           => Len(setex_log) = max_retries + 1

\* the current call names no resource type of the schema, or leaves a
\* required parameter out or null
SchemaMisuse == ~get_key(cf_req.key_type, cf_req.params).ok

\* C33: cache_first called with an unrecognised resource type, or with a
\* required parameter missing or null, raises the schema error (ValueError)
\* to the caller unmodified, before any store access and without invoking
\* the fetch function.
C33_SchemaErrorBeforeStoreAndFetch ==
    (AfterLookup /\ SchemaMisuse)
        => /\ cf_pc = "done"
           /\ cf_out = CfRaise(get_key(cf_req.key_type, cf_req.params).err)
           /\ cf_out.exc = "ValueError"
           /\ get_reply = "none"
           /\ set_reply = "none"
           /\ setex_log = <<>>
           /\ fetch_calls = 0
           /\ store = store_before

\* stock_bars asked with timeframe None: ValueError, nothing looked up
C33_Witness ==
    /\ cf_pc = "done" /\ cf_req = NullParamRequest
    /\ cf_out = CfRaise("ValueError")
    /\ get_reply = "none" /\ fetch_calls = 0

(* ---------------------------------------------------------------------- *)
(* Claims about the value add_to_list_limited returns                     *)
(* ---------------------------------------------------------------------- *)
\* C35: add_to_list_limited returns the length of the list after the
\* operation, that is after the trim has been applied, so the returned value
\* never exceeds max_items.
C35_ReturnsLengthAfterTrim ==
    ll_out.kind = "return" =>
        /\ ll_out.n = Len(lst)
        /\ ll_out.n <= ll_args.max_items

(* ---------------------------------------------------------------------- *)
(* Claims about the handle the operation is invoked with                  *)
(* ---------------------------------------------------------------------- *)
\* C37: execute_with_retry never invokes the operation with a null handle:
\* under every interleaving, also when another caller's transient failure
\* nulls the shared handle between this caller's null-check and its use, the
\* handle lookup either returns a usable client or raises a transient error.
C37_OperationNeverOnNullHandle ==
    \A t \in Threads :
        /\ t_pc[t] = "op" => t_local[t] # NoClient
        /\ t_out[t].kind = "raise"
               => t_out[t].cls \in TransientErrors \cup NonTransientErrors

(* ---------------------------------------------------------------------- *)
(* Claims about ping                                                      *)
(* ---------------------------------------------------------------------- *)
\* the store lets one of the first max_retries + 1 attempts through, the
\* attempts before it having met transient errors
SomeAttemptSucceeds ==
    \E k \in 0..max_retries : LeadingTransient(k) /\ plan[k + 1] = "ok"
\* an attempt meets a non-transient error after transient ones only
NonTransientOccurs ==
    \E j \in 1..(max_retries + 1) :
        LeadingTransient(j - 1) /\ plan[j] \in NonTransientErrors

PrefixCalled == g_out # KeyNotCalled
\* the call gives an identifier; it gives none (left out, or None)
IdentifierGiven == Len(g_args) = 3 /\ Truthy(g_args[3])
NoIdentifierGiven == Len(g_args) = 2 \/ (Len(g_args) = 3 /\ g_args[3].none)

\* C34: get_key(category, key_type, identifier) of the redis_schema module
\* returns 'category:key_type:identifier', and 'category:key_type' when no
\* identifier is given, in the markettrader and in the trader_app package.
C34_PrefixKeyInBothPackages ==
    /\ (PrefixCalled /\ IdentifierGiven)
           => g_out = KeyOk(<<g_args[1], ":", g_args[2], ":">> \o g_args[3].s)
    /\ (PrefixCalled /\ NoIdentifierGiven)
           => g_out = KeyOk(<<g_args[1], ":", g_args[2]>>)

(* ---------------------------------------------------------------------- *)
(* Claims about the keys of different mappings                            *)
(* ---------------------------------------------------------------------- *)
\* both calls of the pair returned a key, and the same one
PairSameKey == i_key_a.ok /\ i_key_b.ok /\ i_key_a.key = i_key_b.key
\* the text of a value as the key holds it
KeyText(v) == ReplaceDelims(PyStr(v))

\* C40 (as stated): get_key is injective on complete parameter mappings: for
\* a fixed resource type two mappings yield the same key only if they have
\* the same names and the same values, and keys of two different resource
\* types never coincide.
C40_KeyInjective ==
    PairSameKey =>
        /\ i_a.key_type = i_b.key_type
        /\ ParamNames(i_a.params) = ParamNames(i_b.params)
        /\ \A n \in ParamNames(i_a.params) :
               ParamValue(i_a.params, n) = ParamValue(i_b.params, n)

\* C40 (amended): get_key is injective up to the substitution of the
\* delimiter characters: two mappings yield the same key only if they have
\* the same names and values whose text is the same once ':' and '|' are
\* replaced by '_', and keys of two different resource types never coincide.
C40_KeyInjectiveUpToSubstitution ==
    PairSameKey =>
        /\ i_a.key_type = i_b.key_type
        /\ ParamNames(i_a.params) = ParamNames(i_b.params)
        /\ \A n \in ParamNames(i_a.params) :
               KeyText(ParamValue(i_a.params, n))
                   = KeyText(ParamValue(i_b.params, n))

\* "MSFT:|!" and "MSFT__!" as the symbol of a quote: one key for both
C40_Witness ==
    /\ i_a = [key_type |-> "stock_quote",
              params |-> <<[k |-> "symbol", v |-> PStr(MSFTDelims)]>>]
    /\ i_b = [key_type |-> "stock_quote",
              params |-> <<[k |-> "symbol", v |-> PStr(MSFTUnders)]>>]
    /\ PairSameKey

(* ---------------------------------------------------------------------- *)
(* Claims about the services                                              *)
(* ---------------------------------------------------------------------- *)
\* the last call was of this method and has ended
Ended(method) == v_call.method = method /\ v_out # CfNone
\* the call was answered from the cache
AnsweredFromCache == v_out.kind = "return" /\ v_fetched = <<>>

\* C39: a result that get_bars_for_symbol returns from the cache was fetched
\* for the same symbol, timeframe, start, end and limit as the request it
\* answers: two requests that differ in any of these arguments never share a
\* cache entry.
C39_CachedBarsAreForTheSameRequest ==
    (Ended("get_bars_for_symbol") /\ AnsweredFromCache)
        => v_from.args = v_call.args


\* the entry looked up decodes as a record of the model
HeldOrder ==
    v_held.present /\ deserialize_model("OrderSubmissionResponse", v_held.text).ok

\* C36: get_order_by_id(order_id) follows the cache-first path: it returns
\* the cached order when one is stored for that id, and otherwise fetches the
\* order from the Alpaca collaborator, caches it and returns it.
C36_OrderByIdIsCacheFirst ==
    Ended("get_order_by_id") =>
        \/ /\ HeldOrder
           /\ v_out = CfReturn(deserialize_model("OrderSubmissionResponse",
                                                 v_held.text).v)
           /\ v_fetched = <<>>
        \/ /\ ~HeldOrder
           /\ v_fetched = <<v_call.args>>
           /\ fetch_order(v_reply).raises
                  => v_out = CfRaise(fetch_order(v_reply).exc)
           /\ ~fetch_order(v_reply).raises
                  => v_out = CfReturn(fetch_order(v_reply).val)

(* ---------------------------------------------------------------------- *)
(* Claims about concurrent cache_first calls                              *)
(* ---------------------------------------------------------------------- *)
\* every caller has entered cache_first and has finished
AllFinished == \A c \in RaceCallers : r_pc[c] = "done"
\* the value a caller reads back that d's write has cached
CachedBy(d) ==
    deserialize_model(RaceRequest.model, serialize_model(r_fetch[d]).text).v
\* the caller whose SETEX the store ran last
LastWriter == r_writes[Len(r_writes)]

====
